---- MODULE Spec2Model ----
(***************************************************************************)
(* The repository-templating tools of the repository:                      *)
(*   scripts/create-fhevm-example.ts   (generate-example)                  *)
(*   scripts/create-fhevm-category.ts  (generate-category)                 *)
(* modelled as processes that act, step by step, on one shared file        *)
(* system.  A path is a sequence of names, a file system a function from   *)
(* the existing paths to their nodes.  Then scripts/generate-docs.ts on    *)
(* the same file system, and the contract AcademicPeerReview, whose source *)
(* docs/privacy-academic-review.md shows, as a state machine of its        *)
(* storage with one action per external function.                          *)
(*   Spec        the generators, one invocation after the other            *)
(*   SpecCopy    with copyDirectoryRecursive called on its own             *)
(*   SpecRace    the generators, invocations running concurrently          *)
(*   SpecDocs    generate-docs                                             *)
(*   SpecChain   the contract, every function and the clock                *)
(*   SpecCareer  the contract, two accounts over several papers            *)
(***************************************************************************)
EXTENDS Integers, Sequences, FiniteSets, TLC

VARIABLES
  fs,        \* the file system: existing path -> node
  pc,        \* pc[p]: where process p stands in its tool
  args,      \* args[p]: the tool, the key (argv[0]) and the outputDir of p
  stack,     \* stack[p]: the activations of copyDirectoryRecursive, innermost first
  contractName, \* contractName[p]: createExample's local of that name
  exitCode,  \* exitCode[p]: the process's exit code, NoExit while it runs
  stderr,    \* stderr[p]: what the failing process printed
  fs0        \* fs0[p]: the file system as it was when p was started

\* The storage of the contract AcademicPeerReview, and the chain around it.
VARIABLES
  owner,          \* address public owner
  paperCount,     \* uint256 public paperCount
  papers,         \* mapping(uint256 => Paper)
  reviewers,      \* mapping(address => Reviewer)
  reviews,        \* mapping(uint256 => mapping(address => Review))
  paperReviewers, \* mapping(uint256 => address[])
  reviewerPapers, \* mapping(address => uint256[])
  now,            \* block.timestamp, in days
  lastCall        \* the last transaction: function, sender, arguments, outcome

toolVars == <<fs, pc, args, stack, contractName, exitCode, stderr, fs0>>

chainVars ==
  <<owner, paperCount, papers, reviewers, reviews, paperReviewers,
    reviewerPapers, now, lastCall>>

vars == <<toolVars, chainVars>>

(***************************************************************************)
(* Bounds.                                                                 *)
(***************************************************************************)
\* Number of tool invocations (operating-system processes) of one behaviour.
MaxRuns == 2
\* Longest path, in components, the file system accepts (its PATH_MAX):
\* a system call on a longer path throws ENAMETOOLONG.
MaxPathLen == 6

\* Number of papers submitted in one behaviour of SpecChain.
MaxPapers == 1
\* Number of papers submitted in one behaviour of SpecCareer, and the paper
\* ids the storage of the model has room for.
MaxCareerPapers == 2

Procs == 1..MaxRuns

(***************************************************************************)
(* Paths and nodes.                                                        *)
(***************************************************************************)
rootDir == <<"proj">>
cwd == rootDir

Join(dir, item) == Append(dir, item)

\* The value undefined of a property that an object does not have.
Absent == "<undefined>"

DirNode == [type |-> "dir", fmt |-> "", lines |-> <<>>]

\* A text file: its lines, each <<first word, second word, what follows>>.
TextFile(lines) == [type |-> "file", fmt |-> "text", lines |-> lines]

\* A JSON document: its properties <<key, value>>, in document order, and
\* the way it is laid out.
JsonFile(fmt, obj) == [type |-> "file", fmt |-> fmt, lines |-> obj]

\* obj[key]
Get(obj, key) ==
  LET at == { i \in 1..Len(obj) : obj[i][1] = key }
  IN  IF at = {} THEN Absent ELSE obj[CHOOSE i \in at : TRUE][2]

\* obj[key] = value, as JSON.stringify then writes it: an existing property
\* keeps its place, a new one comes last, an undefined one is left out.
Put(obj, key, value) ==
  IF value = Absent THEN SelectSeq(obj, LAMBDA kv : kv[1] # key)
  ELSE IF \E i \in 1..Len(obj) : obj[i][1] = key
  THEN [i \in 1..Len(obj) |-> IF obj[i][1] = key THEN <<key, value>> ELSE obj[i]]
  ELSE Append(obj, <<key, value>>)

existsSync(fsys, path) == path \in DOMAIN fsys

IsDirectory(fsys, path) == fsys[path].type = "dir"

\* Every name a directory entry of the model can bear, in strcmp order:
\* fs.readdirSync returns the entries sorted (libuv's scandir sorts by strcmp).
NameOrder ==
  << "AcademicPeerReview.sol", "AcademicPeerReview.test.js", "README.md",
     "SimpleAcademicReview.sol", "build", "cache", "contracts",
     "fhevm-example-constructor", "fhevm-example-nonexistent-key",
     "fhevm-example-privacy-academic-review",
     "fhevm-example-simple-academic-review",
     "fhevm-examples-academic-review", "fhevm-examples-constructor",
     "fhevm-examples-nonexistent-key", "fhevm-examples-privacy-applications",
     "index.js", "my-privacy-review", "node_modules", "out1", "output",
     "package.json", "proj", "test", "tmp" >>

readdirSync(fsys, dir) ==
  SelectSeq(NameOrder, LAMBDA n : Join(dir, n) \in DOMAIN fsys)

\* fs.mkdirSync(path, { recursive: true }): the path and its missing parents.
mkdirSync(fsys, path) ==
  LET new == { SubSeq(path, 1, n) : n \in 1..Len(path) } \ DOMAIN fsys
  IN  [q \in DOMAIN fsys \cup new |-> IF q \in DOMAIN fsys THEN fsys[q] ELSE DirNode]

\* Mutant: the destination is created but the content is not written.
copyFileSync_Empty(fsys, src, dest) ==
  [q \in DOMAIN fsys \cup {dest} |-> IF q = dest THEN TextFile(<<>>) ELSE fsys[q]]

\* fs.copyFileSync(src, dest): dest is created or overwritten.
copyFileSync(fsys, src, dest) ==
  [q \in DOMAIN fsys \cup {dest} |-> IF q = dest THEN fsys[src] ELSE fsys[q]]

\* fs.writeFileSync(path, data)
writeFileSync(fsys, path, node) ==
  [q \in DOMAIN fsys \cup {path} |-> IF q = path THEN node ELSE fsys[q]]

TooLong(path) == Len(path) > MaxPathLen

(***************************************************************************)
(* The catalogs.                                                           *)
(***************************************************************************)
\* Object.keys(EXAMPLES_MAP), in declaration order.
EXAMPLES_KEYS == <<"privacy-academic-review", "simple-academic-review">>

EXAMPLES_MAP ==
  [k \in {"privacy-academic-review", "simple-academic-review"} |->
    IF k = "privacy-academic-review"
    THEN [contract |-> <<"contracts", "AcademicPeerReview.sol">>,
          test |-> <<"test", "AcademicPeerReview.test.js">>,
          description |-> "Privacy-Preserving Academic Peer Review System using FHEVM. Demonstrates encrypted review scores, homomorphic aggregation, and access-controlled revelation."]
    ELSE [contract |-> <<"contracts", "SimpleAcademicReview.sol">>,
          test |-> <<"test", "AcademicPeerReview.test.js">>,
          description |-> "Simplified academic review contract demonstrating core FHEVM concepts with minimal complexity."]]

\* Object.keys(CATEGORIES), in declaration order.
CATEGORIES_KEYS == <<"academic-review", "privacy-applications">>

CATEGORIES ==
  [k \in {"academic-review", "privacy-applications"} |->
    IF k = "academic-review"
    THEN [name |-> "Academic Review System",
          description |-> "Privacy-preserving academic peer review system demonstrating all FHEVM concepts",
          contracts |->
            << [path |-> <<"contracts", "AcademicPeerReview.sol">>,
                test |-> <<"test", "AcademicPeerReview.test.js">>,
                description |-> "Full privacy-preserving review system with encrypted scoring"],
               [path |-> <<"contracts", "SimpleAcademicReview.sol">>,
                test |-> <<"test", "AcademicPeerReview.test.js">>,
                description |-> "Simplified version for learning FHEVM basics"] >>,
          additionalDeps |-> Absent]
    ELSE [name |-> "Privacy-Preserving Applications",
          description |-> "Collection of privacy-preserving applications using FHEVM",
          contracts |->
            << [path |-> <<"contracts", "AcademicPeerReview.sol">>,
                test |-> <<"test", "AcademicPeerReview.test.js">>,
                description |-> "Academic peer review with encrypted scores"] >>,
          additionalDeps |-> Absent]]

\* The catalogs are object literals: a property read with a name that
\* Object.prototype defines ("constructor", "toString", ...) yields the
\* inherited member, which is truthy and has none of an entry's fields.
ObjectPrototypeKeys == {"constructor"}

\* !MAP[key] is false: the key names an entry or an inherited member.
Truthy(map, k) == k \in DOMAIN map \/ k \in ObjectPrototypeKeys

HelpFlags == {"--help", "-h"}

ExampleArgs ==
  {"privacy-academic-review", "simple-academic-review", "nonexistent-key", "constructor"}

CategoryArgs ==
  {"academic-review", "privacy-applications", "nonexistent-key", "constructor"}

\* `fhevm-example-${exampleName}` / `fhevm-examples-${category}`
DefaultDirName(tool, k) ==
  IF tool = "example"
  THEN CASE k = "privacy-academic-review" -> "fhevm-example-privacy-academic-review"
         [] k = "simple-academic-review" -> "fhevm-example-simple-academic-review"
         [] k = "constructor" -> "fhevm-example-constructor"
         [] OTHER -> "fhevm-example-nonexistent-key"
  ELSE CASE k = "academic-review" -> "fhevm-examples-academic-review"
         [] k = "privacy-applications" -> "fhevm-examples-privacy-applications"
         [] k = "constructor" -> "fhevm-examples-constructor"
         [] OTHER -> "fhevm-examples-nonexistent-key"

\* args[1] || path.join(process.cwd(), 'output', ...)
DefaultOutputDir(tool, k) == cwd \o <<"output", DefaultDirName(tool, k)>>

\* The output directories a caller passes as args[1].
ExplicitOutputDirs == { <<"tmp", "out1">>, <<"proj", "my-privacy-review">> }

\* The directory names the copy skips.
ExampleExcludeDirs ==
  {"node_modules", "artifacts", "cache", "coverage", "types", "dist", ".git"}

CategoryExcludeDirs ==
  {"node_modules", "artifacts", "cache", "coverage", "types", "dist", ".git",
   "build", "output"}

\* Mutant: the default of the parameter, `excludeDirs: string[] = []`.
excludeDirs_Default(tool) == {}

excludeDirs(tool) ==
  IF tool = "category" THEN CategoryExcludeDirs ELSE ExampleExcludeDirs

(***************************************************************************)
(* The project tree the tools copy.                                        *)
(***************************************************************************)
\* A line of text: <<first word, second word, what follows>>.
Plain(name) == << <<"text", name, "">> >>

SolidityWithContract(name) ==
  << <<"pragma", "solidity", "^0.8.24;">>, <<"contract", name, "{">> >>

SolidityWithoutContract ==
  << <<"pragma", "solidity", "^0.8.24;">>, <<"interface", "IReview", "{">> >>

SourcePackage ==
  << <<"name", "privacy-academic-review">>, <<"version", "1.0.0">>,
     <<"description", "Privacy-Preserving Academic Peer Review System">>,
     <<"scripts", "{compile, test}">>,
     <<"dependencies", "{ethers, react}">> >>

Variants == {"full", "noPackageJson", "noDeclaration", "noSimple", "noTest"}

CommonTree ==
  ( <<>> :> DirNode ) @@
  ( <<"proj">> :> DirNode ) @@
  ( <<"proj", "README.md">> :> TextFile(Plain("README.md")) ) @@
  ( <<"proj", "cache">> :> TextFile(Plain("cache")) ) @@
  ( <<"proj", "contracts">> :> DirNode ) @@
  ( <<"proj", "test">> :> DirNode ) @@
  ( <<"proj", "test", "cache">> :> DirNode ) @@
  ( <<"proj", "test", "cache", "index.js">> :> TextFile(Plain("test/cache/index.js")) ) @@
  ( <<"proj", "build">> :> DirNode ) @@
  ( <<"proj", "build", "index.js">> :> TextFile(Plain("build/index.js")) ) @@
  ( <<"proj", "node_modules">> :> DirNode ) @@
  ( <<"proj", "node_modules", "index.js">> :> TextFile(Plain("node_modules/index.js")) )

SourceTree(v) ==
  CommonTree @@
  ( IF v = "noPackageJson" THEN <<>>
    ELSE <<"proj", "package.json">> :> JsonFile("source", SourcePackage) ) @@
  ( <<"proj", "contracts", "AcademicPeerReview.sol">> :>
      TextFile(IF v = "noDeclaration" THEN SolidityWithoutContract
               ELSE SolidityWithContract("AcademicPeerReview")) ) @@
  ( IF v = "noSimple" THEN <<>>
    ELSE <<"proj", "contracts", "SimpleAcademicReview.sol">> :>
           TextFile(SolidityWithContract("SimpleAcademicReview")) ) @@
  ( IF v = "noTest" THEN <<>>
    ELSE <<"proj", "test", "AcademicPeerReview.test.js">> :>
           TextFile(Plain("AcademicPeerReview.test.js")) )

(***************************************************************************)
(* Pure helpers of the tools.                                              *)
(***************************************************************************)
\* content.match(/^\s*contract\s+(\w+)(?:\s+is\s+|\s*\{)/m): the name on the
\* first line that reads `contract <name> is` or `contract <name> {`, or null.
Null == "<null>"

IsDeclaration(line) == line[1] = "contract" /\ line[3] \in {"is", "{"}

\* Mutant: without a declaration the name is guessed from the file name.
getContractName_GuessesFileName(fsys, contractPath) ==
  LET lines == fsys[contractPath].lines
      hits == { i \in 1..Len(lines) : IsDeclaration(lines[i]) }
  IN  IF hits = {} THEN contractPath[Len(contractPath)]
      ELSE lines[CHOOSE i \in hits : \A j \in hits : i <= j][2]

getContractName(fsys, contractPath) ==
  LET lines == fsys[contractPath].lines
      hits == { i \in 1..Len(lines) : IsDeclaration(lines[i]) }
  IN  IF hits = {} THEN Null
      ELSE lines[CHOOSE i \in hits : \A j \in hits : i <= j][2]

\* generateReadme of create-fhevm-example: the template's interpolations.
generateReadme(exampleName, description, name) ==
  TextFile(<< <<"# FHEVM Example: ", exampleName, "">>,
              <<"description", description, "">>,
              <<"The main contract is", name, name>> >>)

\* path.basename(p, '.sol')
Basename(path) ==
  CASE path[Len(path)] = "AcademicPeerReview.sol" -> "AcademicPeerReview"
    [] path[Len(path)] = "SimpleAcademicReview.sol" -> "SimpleAcademicReview"
    [] OTHER -> path[Len(path)]

CountText(n) == IF n = 1 THEN "1 example contract" ELSE "2 example contracts"

\* Mutant: the two lists show the first member only.
generateCategoryReadme_FirstOnly(category, contracts) ==
  TextFile(<< <<"# FHEVM Examples: ", CATEGORIES[category].name, "">>,
              <<"description", CATEGORIES[category].description, "">>,
              <<"This project contains", CountText(Len(contracts)), "">>,
              <<"included", Basename(contracts[1].path), contracts[1].description>>,
              <<"###", Basename(contracts[1].path), contracts[1].description>> >>)

\* generateReadme of create-fhevm-category: the two lists are in member order.
generateCategoryReadme(category, contracts) ==
  TextFile(<< <<"# FHEVM Examples: ", CATEGORIES[category].name, "">>,
              <<"description", CATEGORIES[category].description, "">>,
              <<"This project contains", CountText(Len(contracts)), "">> >>
           \o [i \in 1..Len(contracts) |->
                 <<"included", Basename(contracts[i].path), contracts[i].description>>]
           \o [i \in 1..Len(contracts) |->
                 <<"###", Basename(contracts[i].path), contracts[i].description>>])

\* JSON.parse(fs.readFileSync(path)): the object of a JSON document.
IsJson(node) == node.type = "file" /\ node.fmt # "text"

\* Mutant: the homepage is not rewritten.
RewriteExamplePackage_NoHomepage(obj, exampleName, description) ==
  Put(Put(obj, "name", "fhevm-example-" \o exampleName),
      "description", description)

\* The three assignments of updatePackageJson.
RewriteExamplePackage(obj, exampleName, description) ==
  Put(Put(Put(obj, "name", "fhevm-example-" \o exampleName),
          "description", description),
      "homepage", "https://github.com/zama-ai/fhevm-examples/" \o exampleName)

\* Mutant: the dependencies are replaced by additionalDeps, set or not.
RewriteCategoryPackage_ReplacesDeps(obj, category) ==
  Put(Put(Put(Put(obj, "name", "fhevm-examples-" \o category),
              "description",
              IF category \in DOMAIN CATEGORIES
              THEN CATEGORIES[category].description ELSE Absent),
          "homepage", "https://github.com/zama-ai/fhevm-examples/" \o category),
      "dependencies", "{}")

\* The assignments of createCategoryProject, step 2.  A property set to
\* undefined is dropped by JSON.stringify.
RewriteCategoryPackage(obj, category) ==
  LET known == category \in DOMAIN CATEGORIES
      patched ==
        Put(Put(Put(obj, "name", "fhevm-examples-" \o category),
                "description",
                IF known THEN CATEGORIES[category].description ELSE Absent),
            "homepage", "https://github.com/zama-ai/fhevm-examples/" \o category)
  IN  IF known /\ CATEGORIES[category].additionalDeps # Absent
      THEN Put(patched, "dependencies",
               Get(patched, "dependencies") \o "+" \o CATEGORIES[category].additionalDeps)
      ELSE patched

\* JSON.stringify(packageJson, null, 2)
Stringify(obj) == JsonFile("indent2", obj)

(***************************************************************************)
(* The contract AcademicPeerReview: constants, storage, constructor.       *)
(***************************************************************************)
\* The owner and three more accounts: with the owner, one reviewer more than
\* a finalization takes.
Addresses == {"owner", "alice", "bob", "carol"}

\* address(0)
ZeroAddress == "0x0"

MIN_SCORE == 1
MAX_SCORE == 10
\* 30 days
REVIEW_PERIOD == 30
MIN_REVIEWERS == 3

PaperIds == 1..MaxCareerPapers

\* The values of block.timestamp a transaction can see: the day of
\* deployment, and the day after the review period that begins on it.
Instants == {0, REVIEW_PERIOD + 1}

\* bytes32, narrowed to four bits.
Bytes32 == 0..15

\* keccak256(abi.encodePacked(...)): the packed values absorbed one by one.
RECURSIVE Absorb(_, _)
Absorb(h, packed) ==
  IF packed = <<>> THEN h
  ELSE Absorb((h * 5 + Head(packed) + 1) % Cardinality(Bytes32), Tail(packed))

keccak256(packed) == Absorb(7 % Cardinality(Bytes32), packed)

\* The zero value of each struct: what a mapping holds for a key never set.
ZeroPaper ==
  [paperId |-> 0, author |-> ZeroAddress, title |-> "", abstractText |-> "",
   ipfsHash |-> "", status |-> "Submitted", submissionTime |-> 0,
   reviewDeadline |-> 0, encryptedScores |-> <<>>, aggregatedScore |-> 0,
   reviewerCount |-> 0, isFinalized |-> FALSE]

ZeroReviewer ==
  [reviewerAddress |-> ZeroAddress, isVerified |-> FALSE, reputation |-> 0,
   expertise |-> "", reviewsCompleted |-> 0]

ZeroReview ==
  [paperId |-> 0, reviewer |-> ZeroAddress, encryptedScore |-> 0,
   encryptedComments |-> 0, timestamp |-> 0, isSubmitted |-> FALSE]

NoCall == [fn |-> "constructor", sender |-> "owner", paperId |-> 0, score |-> 0,
           result |-> "ok"]

\* constructor() { owner = msg.sender; } with every mapping empty.
Deployed ==
  /\ owner = "owner"
  /\ paperCount = 0
  /\ papers = [id \in PaperIds |-> ZeroPaper]
  /\ reviewers = [a \in Addresses |-> ZeroReviewer]
  /\ reviews = [id \in PaperIds |-> [a \in Addresses |-> ZeroReview]]
  /\ paperReviewers = [id \in PaperIds |-> <<>>]
  /\ reviewerPapers = [a \in Addresses |-> <<>>]
  /\ now = 0
  /\ lastCall = NoCall

(***************************************************************************)
(* Initial state.                                                          *)
(***************************************************************************)
NoExit == -1
NoArgs == [tool |-> "none", key |-> "", outputDir |-> <<>>]
NoMessage == [kind |-> "", keys |-> <<>>]

Init ==
  /\ \E v \in Variants : fs = SourceTree(v)
  /\ pc = [p \in Procs |-> "idle"]
  /\ args = [p \in Procs |-> NoArgs]
  /\ stack = [p \in Procs |-> <<>>]
  /\ contractName = [p \in Procs |-> Null]
  /\ exitCode = [p \in Procs |-> NoExit]
  /\ stderr = [p \in Procs |-> NoMessage]
  /\ fs0 = [p \in Procs |-> <<>>]
  /\ Deployed

(***************************************************************************)
(* Process exit.                                                           *)
(***************************************************************************)
\* error(message): the message is printed and the process exits with 1.
\* An uncaught exception ends the process with exit code 1 as well.
Exit(p, code, kind, keys) ==
  /\ pc' = [pc EXCEPT ![p] = "exited"]
  /\ exitCode' = [exitCode EXCEPT ![p] = code]
  /\ stderr' = [stderr EXCEPT ![p] = [kind |-> kind, keys |-> keys]]
  /\ stack' = [stack EXCEPT ![p] = <<>>]

Goto(p, label) ==
  /\ pc' = [pc EXCEPT ![p] = label]
  /\ UNCHANGED <<exitCode, stderr>>

(***************************************************************************)
(* main(): the invocations.  The processes run one after the other.        *)
(***************************************************************************)
MayStart(p) ==
  /\ pc[p] = "idle"
  /\ \A q \in Procs : q < p => pc[q] = "exited"
  /\ \A q \in Procs : q > p => pc[q] = "idle"

Tools == {"example", "category"}

ArgsOf(tool) == IF tool = "example" THEN ExampleArgs ELSE CategoryArgs

\* <tool> --help [output-dir]: the usage is printed, process.exit(0).
Help(p) ==
  /\ MayStart(p)
  /\ \E tool \in Tools, k \in HelpFlags :
       args' = [args EXCEPT ![p] =
                  [tool |-> tool, key |-> k, outputDir |-> DefaultOutputDir(tool, k)]]
  /\ fs0' = [fs0 EXCEPT ![p] = fs]
  /\ Exit(p, 0, "usage", <<>>)
  /\ UNCHANGED <<fs, contractName>>
  /\ UNCHANGED chainVars

\* <tool> <key> [output-dir]
Invoke(p) ==
  /\ MayStart(p)
  /\ \E tool \in Tools :
       \E k \in ArgsOf(tool) :
         \E dir \in ExplicitOutputDirs \cup {DefaultOutputDir(tool, k)} :
           args' = [args EXCEPT ![p] = [tool |-> tool, key |-> k, outputDir |-> dir]]
  /\ fs0' = [fs0 EXCEPT ![p] = fs]
  /\ Goto(p, "checkKey")
  /\ UNCHANGED <<fs, stack, contractName>>
  /\ UNCHANGED chainVars

(***************************************************************************)
(* copyDirectoryRecursive                                                  *)
(***************************************************************************)
Frame(fsys, source, destination) ==
  [source |-> source, destination |-> destination,
   items |-> readdirSync(fsys, source)]

\* Mutant: an exclusive creation, the call fails when the destination exists.
CopyCall_Exclusive(p, source, destination, callers) ==
  IF existsSync(fs, destination)
  THEN /\ Exit(p, 1, "Output directory already exists", <<>>)
       /\ UNCHANGED fs
  ELSE IF TooLong(destination)
  THEN /\ Exit(p, 1, "ENAMETOOLONG", <<>>)
       /\ UNCHANGED fs
  ELSE /\ fs' = mkdirSync(fs, destination)
       /\ stack' = [stack EXCEPT ![p] =
                      <<Frame(mkdirSync(fs, destination), source, destination)>>
                        \o callers]
       /\ Goto(p, "copy")

\* The call: the destination is created unless it exists, the source is listed.
CopyCall(p, source, destination, callers) ==
  IF ~existsSync(fs, destination) /\ TooLong(destination)
  THEN /\ Exit(p, 1, "ENAMETOOLONG", <<>>)
       /\ UNCHANGED fs
  ELSE LET made == IF existsSync(fs, destination) THEN fs
                   ELSE mkdirSync(fs, destination)
       IN  /\ fs' = made
           /\ stack' = [stack EXCEPT ![p] =
                          <<Frame(made, source, destination)>> \o callers]
           /\ Goto(p, "copy")

\* Mutant: the list is applied to the entries of the source root only.
CopyItem_TopLevelOnly(p) ==
  /\ pc[p] = "copy"
  /\ stack[p] # <<>>
  /\ Head(stack[p]).items # <<>>
  /\ LET frame == Head(stack[p])
         item == Head(frame.items)
         sourcePath == Join(frame.source, item)
         destPath == Join(frame.destination, item)
         rest == <<[frame EXCEPT !.items = Tail(frame.items)]>> \o Tail(stack[p])
     IN  IF IsDirectory(fs, sourcePath)
         THEN IF item \in excludeDirs(args[p].tool) /\ Tail(stack[p]) = <<>>
              THEN /\ stack' = [stack EXCEPT ![p] = rest]
                   /\ UNCHANGED <<fs, pc, exitCode, stderr>>
              ELSE CopyCall(p, sourcePath, destPath, rest)
         ELSE IF TooLong(destPath)
              THEN /\ Exit(p, 1, "ENAMETOOLONG", <<>>)
                   /\ UNCHANGED fs
              ELSE IF existsSync(fs, destPath) /\ IsDirectory(fs, destPath)
              THEN /\ Exit(p, 1, "EISDIR", <<>>)
                   /\ UNCHANGED fs
              ELSE /\ fs' = copyFileSync(fs, sourcePath, destPath)
                   /\ stack' = [stack EXCEPT ![p] = rest]
                   /\ UNCHANGED <<pc, exitCode, stderr>>
  /\ UNCHANGED <<args, contractName, fs0>>
  /\ UNCHANGED chainVars

\* One turn of items.forEach.
CopyItem(p) ==
  /\ pc[p] = "copy"
  /\ stack[p] # <<>>
  /\ Head(stack[p]).items # <<>>
  /\ LET frame == Head(stack[p])
         item == Head(frame.items)
         sourcePath == Join(frame.source, item)
         destPath == Join(frame.destination, item)
         rest == <<[frame EXCEPT !.items = Tail(frame.items)]>> \o Tail(stack[p])
     IN  IF IsDirectory(fs, sourcePath)
         THEN IF item \in excludeDirs(args[p].tool)
              THEN /\ stack' = [stack EXCEPT ![p] = rest]
                   /\ UNCHANGED <<fs, pc, exitCode, stderr>>
              ELSE CopyCall(p, sourcePath, destPath, rest)
         ELSE IF TooLong(destPath)
              THEN /\ Exit(p, 1, "ENAMETOOLONG", <<>>)
                   /\ UNCHANGED fs
              ELSE IF existsSync(fs, destPath) /\ IsDirectory(fs, destPath)
              THEN /\ Exit(p, 1, "EISDIR", <<>>)
                   /\ UNCHANGED fs
              ELSE /\ fs' = copyFileSync(fs, sourcePath, destPath)
                   /\ stack' = [stack EXCEPT ![p] = rest]
                   /\ UNCHANGED <<pc, exitCode, stderr>>
  /\ UNCHANGED <<args, contractName, fs0>>
  /\ UNCHANGED chainVars

\* The label after the outermost call of copyDirectoryRecursive.
AfterCopy(tool) == IF tool = "example" THEN "verify" ELSE "package"

\* forEach is through: the activation returns.
CopyReturn(p) ==
  /\ pc[p] = "copy"
  /\ stack[p] # <<>>
  /\ Head(stack[p]).items = <<>>
  /\ IF Tail(stack[p]) # <<>>
     THEN /\ stack' = [stack EXCEPT ![p] = Tail(stack[p])]
          /\ UNCHANGED <<pc, exitCode, stderr>>
     ELSE IF args[p].tool \in Tools
     THEN /\ stack' = [stack EXCEPT ![p] = <<>>]
          /\ Goto(p, AfterCopy(args[p].tool))
     ELSE Exit(p, 0, "returned", <<>>)
  /\ UNCHANGED <<fs, args, contractName, fs0>>
  /\ UNCHANGED chainVars

(***************************************************************************)
(* createExample                                                           *)
(***************************************************************************)
IsTool(p, tool, label) == pc[p] = label /\ args[p].tool = tool

\* if (!EXAMPLES_MAP[exampleName]) error(`Unknown example: ...`)
ExCheckKey(p) ==
  /\ IsTool(p, "example", "checkKey")
  /\ IF Truthy(EXAMPLES_MAP, args[p].key)
     THEN Goto(p, "validate") /\ UNCHANGED stack
     ELSE Exit(p, 1, "Unknown example", EXAMPLES_KEYS)
  /\ UNCHANGED <<fs, args, contractName, fs0>>
  /\ UNCHANGED chainVars

\* "Validate paths exist": the error the two existsSync checks end with.
Valid == "valid"

\* Mutant: the test file is not checked.
ValidatePaths_ContractOnly(fsys, example) ==
  IF ~existsSync(fsys, rootDir \o example.contract) THEN "Contract not found"
  ELSE Valid

ValidatePaths(fsys, example) ==
  IF ~existsSync(fsys, rootDir \o example.contract) THEN "Contract not found"
  ELSE IF ~existsSync(fsys, rootDir \o example.test) THEN "Test not found"
  ELSE Valid

\* path.join(rootDir, example.contract) throws a TypeError when the member
\* read from the catalog has no `contract`; then the two existsSync checks.
ExValidatePaths(p) ==
  /\ IsTool(p, "example", "validate")
  /\ IF args[p].key \notin DOMAIN EXAMPLES_MAP
     THEN Exit(p, 1, "TypeError", <<>>)
     ELSE LET found == ValidatePaths(fs, EXAMPLES_MAP[args[p].key])
          IN  IF found # Valid
              THEN Exit(p, 1, found, <<>>)
              ELSE Goto(p, "checkOutput") /\ UNCHANGED stack
  /\ UNCHANGED <<fs, args, contractName, fs0>>
  /\ UNCHANGED chainVars

\* if (fs.existsSync(outputDir)) error(`Output directory already exists`)
\* Mutant: the check is left out.
ExOutputExists_Never(fsys, outputDir) == FALSE

ExOutputExists(fsys, outputDir) == existsSync(fsys, outputDir)

ExCheckOutput(p) ==
  /\ IsTool(p, "example", "checkOutput")
  /\ IF ExOutputExists(fs, args[p].outputDir)
     THEN Exit(p, 1, "Output directory already exists", <<>>)
     ELSE Goto(p, "callCopy") /\ UNCHANGED stack
  /\ UNCHANGED <<fs, args, contractName, fs0>>
  /\ UNCHANGED chainVars

\* copyDirectoryRecursive(rootDir, outputDir)
ExCopy(p) ==
  /\ IsTool(p, "example", "callCopy")
  /\ CopyCall(p, rootDir, args[p].outputDir, <<>>)
  /\ UNCHANGED <<args, contractName, fs0>>
  /\ UNCHANGED chainVars

\* const contractName = getContractName(contractPath); if (!contractName) error
ExVerifyContract(p) ==
  /\ IsTool(p, "example", "verify")
  /\ LET contractPath == rootDir \o EXAMPLES_MAP[args[p].key].contract
         found == getContractName(fs, contractPath)
     IN  IF found = Null
         THEN /\ Exit(p, 1, "Could not extract contract name", <<>>)
              /\ UNCHANGED contractName
         ELSE /\ contractName' = [contractName EXCEPT ![p] = found]
              /\ Goto(p, "package")
              /\ UNCHANGED stack
  /\ UNCHANGED <<fs, args, fs0>>
  /\ UNCHANGED chainVars

\* Mutant: a missing package.json is passed over and the README is written.
ExUpdatePackageJson_SkipsMissing(p) ==
  /\ IsTool(p, "example", "package")
  /\ LET packageJsonPath == Join(args[p].outputDir, "package.json")
     IN  IF ~existsSync(fs, packageJsonPath) \/ ~IsJson(fs[packageJsonPath])
         THEN /\ Goto(p, "readme")
              /\ UNCHANGED <<fs, stack>>
         ELSE /\ fs' = writeFileSync(fs, packageJsonPath,
                         Stringify(RewriteExamplePackage(fs[packageJsonPath].lines,
                           args[p].key, EXAMPLES_MAP[args[p].key].description)))
              /\ Goto(p, "readme")
              /\ UNCHANGED stack
  /\ UNCHANGED <<args, contractName, fs0>>
  /\ UNCHANGED chainVars

\* updatePackageJson(outputDir, exampleName, example.description)
ExUpdatePackageJson(p) ==
  /\ IsTool(p, "example", "package")
  /\ LET packageJsonPath == Join(args[p].outputDir, "package.json")
     IN  IF ~existsSync(fs, packageJsonPath)
         THEN Exit(p, 1, "ENOENT", <<>>) /\ UNCHANGED fs
         ELSE IF ~IsJson(fs[packageJsonPath])
         THEN Exit(p, 1, "SyntaxError", <<>>) /\ UNCHANGED fs
         ELSE /\ fs' = writeFileSync(fs, packageJsonPath,
                         Stringify(RewriteExamplePackage(fs[packageJsonPath].lines,
                           args[p].key, EXAMPLES_MAP[args[p].key].description)))
              /\ Goto(p, "readme")
              /\ UNCHANGED stack
  /\ UNCHANGED <<args, contractName, fs0>>
  /\ UNCHANGED chainVars

\* Mutant: the README of the project that is copied is overwritten.
ExWriteReadme_InRootDir(p) ==
  /\ IsTool(p, "example", "readme")
  /\ fs' = writeFileSync(fs, Join(rootDir, "README.md"),
             generateReadme(args[p].key, EXAMPLES_MAP[args[p].key].description,
                            contractName[p]))
  /\ Exit(p, 0, "created successfully", <<>>)
  /\ UNCHANGED <<args, contractName, fs0>>
  /\ UNCHANGED chainVars

\* fs.writeFileSync(path.join(outputDir, 'README.md'), readme); main returns.
ExWriteReadme(p) ==
  /\ IsTool(p, "example", "readme")
  /\ fs' = writeFileSync(fs, Join(args[p].outputDir, "README.md"),
             generateReadme(args[p].key, EXAMPLES_MAP[args[p].key].description,
                            contractName[p]))
  /\ Exit(p, 0, "created successfully", <<>>)
  /\ UNCHANGED <<args, contractName, fs0>>
  /\ UNCHANGED chainVars

(***************************************************************************)
(* createCategoryProject                                                   *)
(***************************************************************************)
\* if (!CATEGORIES[category]) error(`Unknown category: ...`)
CatCheckKey(p) ==
  /\ IsTool(p, "category", "checkKey")
  /\ IF Truthy(CATEGORIES, args[p].key)
     THEN Goto(p, "checkOutput") /\ UNCHANGED stack
     ELSE Exit(p, 1, "Unknown category", CATEGORIES_KEYS)
  /\ UNCHANGED <<fs, args, contractName, fs0>>
  /\ UNCHANGED chainVars

\* if (fs.existsSync(outputDir)) error(`Output directory already exists`)
CatOutputExists(fsys, outputDir) == existsSync(fsys, outputDir)

CatCheckOutput(p) ==
  /\ IsTool(p, "category", "checkOutput")
  /\ IF CatOutputExists(fs, args[p].outputDir)
     THEN Exit(p, 1, "Output directory already exists", <<>>)
     ELSE Goto(p, "callCopy") /\ UNCHANGED stack
  /\ UNCHANGED <<fs, args, contractName, fs0>>
  /\ UNCHANGED chainVars

\* copyDirectoryRecursive(rootDir, outputDir, [...])
CatCopy(p) ==
  /\ IsTool(p, "category", "callCopy")
  /\ CopyCall(p, rootDir, args[p].outputDir, <<>>)
  /\ UNCHANGED <<args, contractName, fs0>>
  /\ UNCHANGED chainVars

\* Step 2: package.json is read, patched and written.
CatUpdatePackageJson(p) ==
  /\ IsTool(p, "category", "package")
  /\ LET packageJsonPath == Join(args[p].outputDir, "package.json")
     IN  IF ~existsSync(fs, packageJsonPath)
         THEN Exit(p, 1, "ENOENT", <<>>) /\ UNCHANGED fs
         ELSE IF ~IsJson(fs[packageJsonPath])
         THEN Exit(p, 1, "SyntaxError", <<>>) /\ UNCHANGED fs
         ELSE /\ fs' = writeFileSync(fs, packageJsonPath,
                         Stringify(RewriteCategoryPackage(fs[packageJsonPath].lines,
                                                         args[p].key)))
              /\ Goto(p, "readme")
              /\ UNCHANGED stack
  /\ UNCHANGED <<args, contractName, fs0>>
  /\ UNCHANGED chainVars

\* Step 3: generateReadme(category, categoryInfo.contracts) reads
\* contracts.length, a TypeError when the member has no `contracts`.
CatWriteReadme(p) ==
  /\ IsTool(p, "category", "readme")
  /\ IF args[p].key \notin DOMAIN CATEGORIES
     THEN Exit(p, 1, "TypeError", <<>>) /\ UNCHANGED fs
     ELSE /\ fs' = writeFileSync(fs, Join(args[p].outputDir, "README.md"),
                     generateCategoryReadme(args[p].key,
                                            CATEGORIES[args[p].key].contracts))
          /\ Exit(p, 0, "created successfully", <<>>)
  /\ UNCHANGED <<args, contractName, fs0>>
  /\ UNCHANGED chainVars

(***************************************************************************)
(* The specification.                                                      *)
(***************************************************************************)
Next ==
  \E p \in Procs :
    \/ Help(p)
    \/ Invoke(p)
    \/ ExCheckKey(p)
    \/ ExValidatePaths(p)
    \/ ExCheckOutput(p)
    \/ ExCopy(p)
    \/ ExVerifyContract(p)
    \/ ExUpdatePackageJson(p)
    \/ ExWriteReadme(p)
    \/ CatCheckKey(p)
    \/ CatCheckOutput(p)
    \/ CatCopy(p)
    \/ CatUpdatePackageJson(p)
    \/ CatWriteReadme(p)
    \/ CopyItem(p)
    \/ CopyReturn(p)

Spec == Init /\ [][Next]_vars

(***************************************************************************)
(* The copy operation called on its own: copyDirectoryRecursive(rootDir,   *)
(* dest) of create-fhevm-example.ts, by a caller that checks nothing.      *)
(***************************************************************************)
CopyTreeCall(p) ==
  /\ MayStart(p)
  /\ \E dir \in ExplicitOutputDirs :
       /\ args' = [args EXCEPT ![p] =
                     [tool |-> "copyTree", key |-> "", outputDir |-> dir]]
       /\ fs0' = [fs0 EXCEPT ![p] = fs]
       /\ IF ~existsSync(fs, dir) /\ TooLong(dir)
          THEN /\ Exit(p, 1, "ENAMETOOLONG", <<>>)
               /\ UNCHANGED fs
          ELSE LET made == IF existsSync(fs, dir) THEN fs ELSE mkdirSync(fs, dir)
               IN  /\ fs' = made
                   /\ stack' = [stack EXCEPT ![p] = <<Frame(made, rootDir, dir)>>]
                   /\ Goto(p, "copy")
  /\ UNCHANGED contractName
  /\ UNCHANGED chainVars

NextCopy == Next \/ \E p \in Procs : CopyTreeCall(p)

SpecCopy == Init /\ [][NextCopy]_vars

(***************************************************************************)
(* Concurrent invocations.  The tools take no lock: the operating system   *)
(* may start a process while another one runs, and their steps interleave  *)
(* on the shared file system.                                              *)
(***************************************************************************)
InitRace ==
  /\ fs = SourceTree("full")
  /\ pc = [p \in Procs |-> "idle"]
  /\ args = [p \in Procs |-> NoArgs]
  /\ stack = [p \in Procs |-> <<>>]
  /\ contractName = [p \in Procs |-> Null]
  /\ exitCode = [p \in Procs |-> NoExit]
  /\ stderr = [p \in Procs |-> NoMessage]
  /\ fs0 = [p \in Procs |-> <<>>]
  /\ Deployed

\* The output directory that the racing invocations are all given.
SharedOutputDir == <<"tmp", "out1">>

\* <tool> <key> <output-dir>, started whatever the other processes are doing.
Spawn(p) ==
  /\ pc[p] = "idle"
  /\ \E tool \in Tools :
       \E k \in ArgsOf(tool) :
         args' = [args EXCEPT ![p] =
                    [tool |-> tool, key |-> k, outputDir |-> SharedOutputDir]]
  /\ fs0' = [fs0 EXCEPT ![p] = fs]
  /\ Goto(p, "checkKey")
  /\ UNCHANGED <<fs, stack, contractName>>
  /\ UNCHANGED chainVars

NextRace ==
  \E p \in Procs :
    \/ Spawn(p)
    \/ ExCheckKey(p)
    \/ ExValidatePaths(p)
    \/ ExCheckOutput(p)
    \/ ExCopy(p)
    \/ ExVerifyContract(p)
    \/ ExUpdatePackageJson(p)
    \/ ExWriteReadme(p)
    \/ CatCheckKey(p)
    \/ CatCheckOutput(p)
    \/ CatCopy(p)
    \/ CatUpdatePackageJson(p)
    \/ CatWriteReadme(p)
    \/ CopyItem(p)
    \/ CopyReturn(p)

SpecRace == InitRace /\ [][NextRace]_vars

(***************************************************************************)
(* generate-docs <key> | --all.  scripts/generate-docs.ts, modelled from   *)
(* its specification: resolve, buildDocumentationPage (every source is     *)
(* read, then the page is written) and rebuildIndex (a full replacement),  *)
(* on the file system and the processes of the generators above.           *)
(***************************************************************************)
docsDir == rootDir \o <<"docs">>

indexPath == Join(docsDir, "SUMMARY.md")

\* Object.keys(EXAMPLES_CONFIG), in declaration order.
EXAMPLES_CONFIG_KEYS == <<"privacy-academic-review", "simple-academic-review">>

EXAMPLES_CONFIG ==
  [k \in {"privacy-academic-review", "simple-academic-review"} |->
    IF k = "privacy-academic-review"
    THEN [title |-> "Privacy-Preserving Academic Peer Review System",
          description |-> EXAMPLES_MAP[k].description,
          contract |-> <<"contracts", "AcademicPeerReview.sol">>,
          test |-> <<"test", "AcademicPeerReview.test.js">>,
          output |-> <<"docs", "privacy-academic-review.md">>,
          category |-> "Advanced Examples"]
    ELSE [title |-> "Simple Academic Review",
          description |-> EXAMPLES_MAP[k].description,
          contract |-> <<"contracts", "SimpleAcademicReview.sol">>,
          test |-> <<"test", "AcademicPeerReview.test.js">>,
          output |-> <<"docs", "simple-academic-review.md">>,
          category |-> "Basic Examples"]]

\* The categories, in the order in which the index shows them.
DOCS_CATEGORIES == <<"Basic Examples", "Advanced Examples">>

AllFlag == "--all"

DocsArgs ==
  {"privacy-academic-review", "simple-academic-review", "nonexistent-key", AllFlag}

\* The file name of a documentation page: the last component of `output`.
PageFile(k) == EXAMPLES_CONFIG[k].output[Len(EXAMPLES_CONFIG[k].output)]

PagePath(k) == rootDir \o EXAMPLES_CONFIG[k].output

\* The source files of an entry, by role, in the order of the tabs.
SourceFiles(k) ==
  << [role |-> "contract", path |-> EXAMPLES_CONFIG[k].contract],
     [role |-> "test", path |-> EXAMPLES_CONFIG[k].test] >>

\* extractContractName(contractSourceText): the declared name, or null.
extractContractName(lines) ==
  LET hits == { i \in 1..Len(lines) : IsDeclaration(lines[i]) }
  IN  IF hits = {} THEN Null
      ELSE lines[CHOOSE i \in hits : \A j \in hits : i <= j][2]

\* One labelled code block: the text of the file, verbatim, between its tags.
CodeTab(read) ==
  << <<"{% tab %}", read.name, "">> >> \o read.lines \o
  << <<"{% endtab %}", read.name, "">> >>

RECURSIVE CodeTabs(_)
CodeTabs(reads) ==
  IF reads = <<>> THEN <<>> ELSE CodeTab(Head(reads)) \o CodeTabs(Tail(reads))

\* The page buildDocumentationPage assembles from the texts it has read.
DocumentationPage(k, reads) ==
  TextFile(<< <<"#", EXAMPLES_CONFIG[k].title, "">>,
              <<"description", EXAMPLES_CONFIG[k].description, "">>,
              <<"{% tabs %}", "", "">> >>
           \o CodeTabs(reads) \o
           << <<"{% endtabs %}", "", "">>,
              <<"## Quick Reference", "", "">> >>)

\* The links of one category: its heading, then its pages in the given order.
CategorySection(category, pages) ==
  LET mine == SelectSeq(pages, LAMBDA k : EXAMPLES_CONFIG[k].category = category)
  IN  IF mine = <<>> THEN <<>>
      ELSE << <<"##", category, "">> >> \o
           [i \in 1..Len(mine) |->
              <<"-", EXAMPLES_CONFIG[mine[i]].title, PageFile(mine[i])>>]

RECURSIVE CategorySections(_, _)
CategorySections(categories, pages) ==
  IF categories = <<>> THEN <<>>
  ELSE CategorySection(Head(categories), pages)
       \o CategorySections(Tail(categories), pages)

\* Mutant: an incremental merge, the pages are added to the index there is.
rebuildIndex_Merges(fsys, generatedPages) ==
  IF existsSync(fsys, indexPath)
  THEN TextFile(fsys[indexPath].lines
                \o CategorySections(DOCS_CATEGORIES, generatedPages))
  ELSE TextFile(<< <<"# Summary", "", "">> >>
                \o CategorySections(DOCS_CATEGORIES, generatedPages))

\* rebuildIndex(generatedPages): the index, whatever it held, is replaced.
rebuildIndex(fsys, generatedPages) ==
  TextFile(<< <<"# Summary", "", "">> >>
           \o CategorySections(DOCS_CATEGORIES, generatedPages))

\* The documentation directory before a run.
OldPage == TextFile(<< <<"#", "An earlier page", "">> >>)

IndexStates == {"none", "current", "stale", "duplicate"}

IndexLines(state) ==
  CASE state = "current" ->
         << <<"# Summary", "", "">>,
            <<"##", "Basic Examples", "">>,
            <<"-", "Simple Academic Review", "simple-academic-review.md">>,
            <<"##", "Advanced Examples", "">>,
            <<"-", "Privacy-Preserving Academic Peer Review System",
              "privacy-academic-review.md">>,
            <<"##", "Resources", "">>,
            <<"-", "Main README", "../README.md">> >>
    [] state = "stale" ->
         << <<"# Summary", "", "">>,
            <<"##", "Basic Examples", "">>,
            <<"-", "Old Example", "old-example.md">> >>
    [] OTHER ->
         << <<"# Summary", "", "">>,
            <<"##", "Advanced Examples", "">>,
            <<"-", "Privacy-Preserving Academic Peer Review System",
              "privacy-academic-review.md">>,
            <<"-", "Privacy-Preserving Academic Peer Review System",
              "privacy-academic-review.md">> >>

DocsTree(state) ==
  ( docsDir :> DirNode ) @@
  ( IF state = "none" THEN <<>>
    ELSE indexPath :> TextFile(IndexLines(state)) ) @@
  ( IF state = "stale"
    THEN ( Join(docsDir, "old-example.md") :> OldPage ) @@
         ( PagePath("privacy-academic-review") :> OldPage )
    ELSE <<>> )

InitDocs ==
  /\ \E v \in Variants, state \in IndexStates :
       fs = SourceTree(v) @@ DocsTree(state)
  /\ pc = [p \in Procs |-> "idle"]
  /\ args = [p \in Procs |-> NoArgs]
  /\ stack = [p \in Procs |-> <<>>]
  /\ contractName = [p \in Procs |-> Null]
  /\ exitCode = [p \in Procs |-> NoExit]
  /\ stderr = [p \in Procs |-> NoMessage]
  /\ fs0 = [p \in Procs |-> <<>>]
  /\ Deployed

\* generate-docs <key> | --all
DocsInvoke(p) ==
  /\ MayStart(p)
  /\ \E k \in DocsArgs :
       args' = [args EXCEPT ![p] = [tool |-> "docs", key |-> k, outputDir |-> docsDir]]
  /\ fs0' = [fs0 EXCEPT ![p] = fs]
  /\ Goto(p, "resolve")
  /\ UNCHANGED <<fs, stack, contractName>>
  /\ UNCHANGED chainVars

\* The work of a run: the pages to do, the page in hand with the texts read
\* for it, the pages written.
DocsWork(todo, reads, generated) ==
  [todo |-> todo, reads |-> reads, generated |-> generated]

\* resolve(key): the entries to generate, or the error that lists the keys.
resolve(p) ==
  /\ IsTool(p, "docs", "resolve")
  /\ IF args[p].key = AllFlag
     THEN /\ stack' = [stack EXCEPT ![p] =
                         <<DocsWork(EXAMPLES_CONFIG_KEYS, <<>>, <<>>)>>]
          /\ Goto(p, "read")
     ELSE IF args[p].key \in DOMAIN EXAMPLES_CONFIG
     THEN /\ stack' = [stack EXCEPT ![p] =
                         <<DocsWork(<<args[p].key>>, <<>>, <<>>)>>]
          /\ Goto(p, "read")
     ELSE Exit(p, 1, "UnknownKeyError", EXAMPLES_CONFIG_KEYS)
  /\ UNCHANGED <<fs, args, contractName, fs0>>
  /\ UNCHANGED chainVars

\* buildDocumentationPage, the reads: the next source file of the page in
\* hand is read; a file that is missing, or a contract without a
\* declaration, ends the run before anything of the page is written.
ReadSource(p) ==
  /\ IsTool(p, "docs", "read")
  /\ LET work == Head(stack[p])
         k == Head(work.todo)
         next == SourceFiles(k)[Len(work.reads) + 1]
         at == rootDir \o next.path
     IN  /\ Len(work.reads) < Len(SourceFiles(k))
         /\ IF ~existsSync(fs, at)
            THEN Exit(p, 1, "SourceFileMissingError", <<>>) /\ UNCHANGED contractName
            ELSE IF next.role = "contract" /\ extractContractName(fs[at].lines) = Null
            THEN Exit(p, 1, "NoDeclarationFoundError", <<>>) /\ UNCHANGED contractName
            ELSE /\ stack' = [stack EXCEPT ![p] =
                     <<[work EXCEPT !.reads =
                          Append(@, [name |-> at[Len(at)], lines |-> fs[at].lines])]>>]
                 /\ contractName' =
                      [contractName EXCEPT ![p] =
                         IF next.role = "contract"
                         THEN extractContractName(fs[at].lines) ELSE @]
                 /\ Goto(p, "read")
  /\ UNCHANGED <<fs, args, fs0>>
  /\ UNCHANGED chainVars

\* Mutant: the index is rebuilt in every mode.
RebuildsIndex_Always(key) == TRUE

\* Only a --all run goes on to rebuildIndex.
RebuildsIndex(key) == key = AllFlag

\* What follows the page in hand: the next page, the index, or the end.
AfterPage(p, work, done) ==
  IF Tail(work.todo) # <<>>
  THEN /\ stack' = [stack EXCEPT ![p] = <<DocsWork(Tail(work.todo), <<>>, done)>>]
       /\ Goto(p, "read")
  ELSE IF RebuildsIndex(args[p].key)
  THEN /\ stack' = [stack EXCEPT ![p] = <<DocsWork(<<>>, <<>>, done)>>]
       /\ Goto(p, "index")
  ELSE Exit(p, 0, "generated", <<>>)

\* Mutant: the page is written as soon as the first source has been read.
WritePage_AfterFirstRead(p) ==
  /\ IsTool(p, "docs", "read")
  /\ LET work == Head(stack[p])
         k == Head(work.todo)
     IN  /\ Len(work.reads) >= 1
         /\ fs' = writeFileSync(fs, PagePath(k), DocumentationPage(k, work.reads))
         /\ IF Len(work.reads) < Len(SourceFiles(k))
            THEN UNCHANGED <<pc, stack, exitCode, stderr>>
            ELSE AfterPage(p, work, Append(work.generated, k))
  /\ UNCHANGED <<args, contractName, fs0>>
  /\ UNCHANGED chainVars

\* buildDocumentationPage, the write: every source has been read, the page
\* replaces the file there is.
WritePage(p) ==
  /\ IsTool(p, "docs", "read")
  /\ LET work == Head(stack[p])
         k == Head(work.todo)
     IN  /\ Len(work.reads) = Len(SourceFiles(k))
         /\ fs' = writeFileSync(fs, PagePath(k), DocumentationPage(k, work.reads))
         /\ AfterPage(p, work, Append(work.generated, k))
  /\ UNCHANGED <<args, contractName, fs0>>
  /\ UNCHANGED chainVars

\* rebuildIndex(generatedPages), then the run ends with code 0.
RebuildIndex(p) ==
  /\ IsTool(p, "docs", "index")
  /\ fs' = writeFileSync(fs, indexPath, rebuildIndex(fs, Head(stack[p]).generated))
  /\ Exit(p, 0, "generated", <<>>)
  /\ UNCHANGED <<args, contractName, fs0>>
  /\ UNCHANGED chainVars

NextDocs ==
  \E p \in Procs :
    \/ DocsInvoke(p)
    \/ resolve(p)
    \/ ReadSource(p)
    \/ WritePage(p)
    \/ RebuildIndex(p)

SpecDocs == InitDocs /\ [][NextDocs]_vars

(***************************************************************************)
(* The contract AcademicPeerReview: its external functions.  A transaction *)
(* whose require fails reverts: the storage is as before, and lastCall     *)
(* holds the reason.                                                       *)
(***************************************************************************)
Call(fn, sender, paperId, score, result) ==
  [fn |-> fn, sender |-> sender, paperId |-> paperId, score |-> score,
   result |-> result]

Ok == "ok"

Storage ==
  <<owner, paperCount, papers, reviewers, reviews, paperReviewers, reviewerPapers>>

\* require(condition, reason) has failed.
Revert(call) ==
  /\ lastCall' = call
  /\ UNCHANGED <<Storage, now, toolVars>>

\* The inputs of the transactions.
Titles == {"", "Research on FHE"}
Expertises == {"Cryptography"}
Scores == {MIN_SCORE - 1, MAX_SCORE, MAX_SCORE + 1}
InputProof == 5
Comments == 3

\* function submitPaper(title, abstractText, ipfsHash) external returns (uint256)
submitPaper(sender, title) ==
  /\ paperCount + 1 \in PaperIds
  /\ LET paperId == paperCount + 1
     IN  /\ paperCount' = paperId
         /\ papers' = [papers EXCEPT ![paperId] =
              [@ EXCEPT !.paperId = paperId,
                        !.author = sender,
                        !.title = title,
                        !.abstractText = "This paper presents...",
                        !.ipfsHash = "QmHash123",
                        !.status = "UnderReview",
                        !.submissionTime = now,
                        !.reviewDeadline = now + REVIEW_PERIOD]]
         /\ lastCall' = Call("submitPaper", sender, paperId, 0, Ok)
  /\ UNCHANGED <<owner, reviewers, reviews, paperReviewers, reviewerPapers, now,
                 toolVars>>

\* reviewers[msg.sender].isVerified = false;
RegisteredAsVerified == FALSE

\* function registerReviewer(string memory expertise) external
registerReviewer(sender, expertise) ==
  IF ~( ~reviewers[sender].isVerified
        \/ reviewers[sender].reviewerAddress = ZeroAddress )
  THEN Revert(Call("registerReviewer", sender, 0, 0, "Already registered"))
  ELSE /\ reviewers' = [reviewers EXCEPT ![sender] =
            [@ EXCEPT !.reviewerAddress = sender,
                      !.expertise = expertise,
                      !.reputation = 100,
                      !.isVerified = RegisteredAsVerified]]
       /\ lastCall' = Call("registerReviewer", sender, 0, 0, Ok)
       /\ UNCHANGED <<owner, paperCount, papers, reviews, paperReviewers,
                      reviewerPapers, now, toolVars>>

\* function verifyReviewer(address reviewer) external onlyOwner
verifyReviewer(sender, reviewer) ==
  IF sender # owner
  THEN Revert(Call("verifyReviewer", sender, 0, 0, "Not the owner"))
  ELSE IF reviewers[reviewer].reviewerAddress = ZeroAddress
  THEN Revert(Call("verifyReviewer", sender, 0, 0, "Reviewer not registered"))
  ELSE /\ reviewers' = [reviewers EXCEPT ![reviewer].isVerified = TRUE]
       /\ lastCall' = Call("verifyReviewer", sender, 0, 0, Ok)
       /\ UNCHANGED <<owner, paperCount, papers, reviews, paperReviewers,
                      reviewerPapers, now, toolVars>>

\* The loop of _finalizeReviews: encryptedScores[0], then each further score
\* hashed into the aggregate.
RECURSIVE Aggregate(_, _)
Aggregate(aggregatedScore, scores) ==
  IF scores = <<>> THEN aggregatedScore
  ELSE Aggregate(keccak256(<<aggregatedScore, Head(scores)>>), Tail(scores))

\* Mutant: the require on isFinalized is left out.
FinalizeCheck_Again(paper) ==
  IF ~(Len(paper.encryptedScores) >= 1) THEN "Not enough reviews" ELSE Ok

\* function _finalizeReviews(uint256 paperId) internal: the reason of the
\* require that fails, or Ok.
FinalizeCheck(paper) ==
  IF ~(Len(paper.encryptedScores) >= 1) THEN "Not enough reviews"
  ELSE IF paper.isFinalized THEN "Already finalized"
  ELSE Ok

finalizeReviews(paper) ==
  [paper EXCEPT !.aggregatedScore =
                   Aggregate(Head(paper.encryptedScores), Tail(paper.encryptedScores)),
                !.isFinalized = TRUE]

\* Mutant: the require on isSubmitted is left out.
AlreadySubmitted_Never(paperId, sender) == FALSE

\* reviews[paperId][msg.sender].isSubmitted
AlreadySubmitted(paperId, sender) == reviews[paperId][sender].isSubmitted

\* The requires of submitReview, in order: the reason of the first that
\* fails, or Ok.
SubmitReviewCheck(sender, paperId, score) ==
  IF ~(papers[paperId].paperId # 0) THEN "Paper does not exist"
  ELSE IF ~reviewers[sender].isVerified THEN "Not a verified reviewer"
  ELSE IF ~(score >= MIN_SCORE /\ score <= MAX_SCORE) THEN "Invalid score"
  ELSE IF AlreadySubmitted(paperId, sender) THEN "Review already submitted"
  ELSE IF ~(now <= papers[paperId].reviewDeadline) THEN "Review period ended"
  ELSE Ok

\* Mutant: the reward is given for the first review only.
submitReview_RewardOnce(sender, paperId, score) ==
  LET call(result) == Call("submitReview", sender, paperId, score, result)
      checked == SubmitReviewCheck(sender, paperId, score)
      encryptedScore == keccak256(<<score, InputProof, now>>)
      encryptedComments == keccak256(<<Comments, InputProof>>)
      reviewed == [papers[paperId] EXCEPT
                     !.encryptedScores = Append(@, encryptedScore),
                     !.reviewerCount = @ + 1]
      final == reviewed.reviewerCount >= MIN_REVIEWERS
  IN  IF checked # Ok THEN Revert(call(checked))
      ELSE IF final /\ FinalizeCheck(reviewed) # Ok
      THEN Revert(call(FinalizeCheck(reviewed)))
      ELSE /\ reviews' = [reviews EXCEPT ![paperId][sender] =
                [paperId |-> paperId, reviewer |-> sender,
                 encryptedScore |-> encryptedScore,
                 encryptedComments |-> encryptedComments,
                 timestamp |-> now, isSubmitted |-> TRUE]]
           /\ papers' = [papers EXCEPT ![paperId] =
                IF final THEN finalizeReviews(reviewed) ELSE reviewed]
           /\ reviewers' = [reviewers EXCEPT ![sender] =
                [@ EXCEPT !.reviewsCompleted = @ + 1,
                          !.reputation = IF @ = 100 THEN 110 ELSE @]]
           /\ paperReviewers' = [paperReviewers EXCEPT ![paperId] = Append(@, sender)]
           /\ reviewerPapers' = [reviewerPapers EXCEPT ![sender] = Append(@, paperId)]
           /\ lastCall' = call(Ok)
           /\ UNCHANGED <<owner, paperCount, now, toolVars>>

\* function submitReview(paperId, score, inputProof, comments) external
submitReview(sender, paperId, score) ==
  LET call(result) == Call("submitReview", sender, paperId, score, result)
      checked == SubmitReviewCheck(sender, paperId, score)
      encryptedScore == keccak256(<<score, InputProof, now>>)
      encryptedComments == keccak256(<<Comments, InputProof>>)
      reviewed == [papers[paperId] EXCEPT
                     !.encryptedScores = Append(@, encryptedScore),
                     !.reviewerCount = @ + 1]
      final == reviewed.reviewerCount >= MIN_REVIEWERS
  IN  IF checked # Ok THEN Revert(call(checked))
      ELSE IF final /\ FinalizeCheck(reviewed) # Ok
      THEN Revert(call(FinalizeCheck(reviewed)))
      ELSE /\ reviews' = [reviews EXCEPT ![paperId][sender] =
                [paperId |-> paperId, reviewer |-> sender,
                 encryptedScore |-> encryptedScore,
                 encryptedComments |-> encryptedComments,
                 timestamp |-> now, isSubmitted |-> TRUE]]
           /\ papers' = [papers EXCEPT ![paperId] =
                IF final THEN finalizeReviews(reviewed) ELSE reviewed]
           /\ reviewers' = [reviewers EXCEPT ![sender] =
                [@ EXCEPT !.reviewsCompleted = @ + 1, !.reputation = @ + 10]]
           /\ paperReviewers' = [paperReviewers EXCEPT ![paperId] = Append(@, sender)]
           /\ reviewerPapers' = [reviewerPapers EXCEPT ![sender] = Append(@, paperId)]
           /\ lastCall' = call(Ok)
           /\ UNCHANGED <<owner, paperCount, now, toolVars>>

\* Mutant: every caller may reveal.
MayReveal_Anyone(sender, paperId) == TRUE

\* msg.sender == owner || msg.sender == papers[paperId].author
MayReveal(sender, paperId) == sender = owner \/ sender = papers[paperId].author

\* Mutant: a score between 4 and 7.
pseudoRandomScore_From4(paper) == (paper.aggregatedScore % 4) + 4

\* uint256 pseudoRandomScore = (uint256(aggregatedScore) % 4) + 7;
pseudoRandomScore(paper) == (paper.aggregatedScore % 4) + 7

\* function requestScoreReveal(uint256 paperId) external
requestScoreReveal(sender, paperId) ==
  LET call(result) == Call("requestScoreReveal", sender, paperId, 0, result)
  IN  IF ~papers[paperId].isFinalized
      THEN Revert(call("Reviews not finalized"))
      ELSE IF ~MayReveal(sender, paperId)
      THEN Revert(call("Not authorized to reveal score"))
      ELSE /\ papers' = [papers EXCEPT ![paperId].status =
                IF pseudoRandomScore(papers[paperId]) >= 7
                THEN "Accepted" ELSE "Rejected"]
           /\ lastCall' = call(Ok)
           /\ UNCHANGED <<owner, paperCount, reviewers, reviews, paperReviewers,
                          reviewerPapers, now, toolVars>>

\* Time passes between two transactions.
AdvanceTime ==
  /\ \E t \in Instants : t > now /\ now' = t
  /\ UNCHANGED <<Storage, lastCall, toolVars>>

InitChain ==
  /\ fs = SourceTree("full")
  /\ pc = [p \in Procs |-> "idle"]
  /\ args = [p \in Procs |-> NoArgs]
  /\ stack = [p \in Procs |-> <<>>]
  /\ contractName = [p \in Procs |-> Null]
  /\ exitCode = [p \in Procs |-> NoExit]
  /\ stderr = [p \in Procs |-> NoMessage]
  /\ fs0 = [p \in Procs |-> <<>>]
  /\ Deployed

NextChain ==
  \/ \E sender \in Addresses :
       \/ \E title \in Titles : paperCount < MaxPapers /\ submitPaper(sender, title)
       \/ \E expertise \in Expertises : registerReviewer(sender, expertise)
       \/ \E reviewer \in Addresses : verifyReviewer(sender, reviewer)
       \/ \E paperId \in 1..MaxPapers, score \in Scores :
            submitReview(sender, paperId, score)
       \/ \E paperId \in 1..MaxPapers : requestScoreReveal(sender, paperId)
  \/ AdvanceTime

SpecChain == InitChain /\ [][NextChain]_vars

(***************************************************************************)
(* The reviewers over several papers: two accounts, one title, one valid   *)
(* score and no passing of time, which leaves room for one paper more.     *)
(***************************************************************************)
CareerAddresses == {"owner", "alice"}

NextCareer ==
  \E sender \in CareerAddresses :
    \/ paperCount < MaxCareerPapers /\ submitPaper(sender, "Research on FHE")
    \/ \E expertise \in Expertises : registerReviewer(sender, expertise)
    \/ \E reviewer \in CareerAddresses : verifyReviewer(sender, reviewer)
    \/ \E paperId \in PaperIds, score \in Scores :
         submitReview(sender, paperId, score)

SpecCareer == InitChain /\ [][NextCareer]_vars

(***************************************************************************)
(* Vocabulary of the properties.                                           *)
(***************************************************************************)
\* Path a is path b or an ancestor of it.
IsPrefix(a, b) == Len(a) <= Len(b) /\ SubSeq(b, 1, Len(a)) = a

\* p is a run of createExample or createCategoryProject.
IsRun(p) == args[p].tool \in Tools /\ args[p].key \notin HelpFlags

\* p has been started and no process after it.
Latest(p) == pc[p] # "idle" /\ \A q \in Procs : q > p => pc[q] = "idle"

Exited(p) == pc[p] = "exited"

Dest(p) == args[p].outputDir

\* outputDir did not exist when p was started.
Fresh(p) == ~existsSync(fs0[p], Dest(p))

CatalogKeys(tool) ==
  IF tool = "example" THEN DOMAIN EXAMPLES_MAP ELSE DOMAIN CATEGORIES

ExclusionList(tool) ==
  IF tool = "category" THEN CategoryExcludeDirs ELSE ExampleExcludeDirs

Range(seq) == { seq[i] : i \in 1..Len(seq) }

\* The paths, relative to dir, of the regular files under dir.
FilesUnder(fsys, dir) ==
  { SubSeq(q, Len(dir) + 1, Len(q)) :
      q \in { r \in DOMAIN fsys : /\ IsPrefix(dir, r)
                                  /\ r # dir
                                  /\ fsys[r].type = "file" } }

\* No directory on the way to the file bears an excluded name.
NonExcluded(rel, excluded) == \A i \in 1..(Len(rel) - 1) : rel[i] \notin excluded

NonExcludedFiles(fsys, dir, excluded) ==
  { rel \in FilesUnder(fsys, dir) : NonExcluded(rel, excluded) }

Succeeded(p) == Exited(p) /\ exitCode[p] = 0

(***************************************************************************)
(* C1.  When outputDir exists already, a run of generate-example or of     *)
(* generate-category changes nothing in the file system and exits with a   *)
(* non-zero code; a run repeated with the key and outputDir of a run that  *)
(* succeeded fails and changes nothing.                                    *)
(***************************************************************************)
C1_ExistingOutputDirFails ==
  /\ \A p \in Procs :
       (IsRun(p) /\ Latest(p) /\ ~Fresh(p)) =>
         /\ fs = fs0[p]
         /\ exitCode[p] # 0
         /\ Exited(p) => exitCode[p] = 1
  /\ \A p, q \in Procs :
       (p < q /\ IsRun(p) /\ Succeeded(p) /\ args[q] = args[p] /\ Exited(q)
          /\ Latest(q)) =>
         /\ exitCode[q] = 1
         /\ fs = fs0[q]

C1_Witness ==
  \E p, q \in Procs :
    /\ p < q /\ IsRun(p) /\ Succeeded(p)
    /\ args[q] = args[p] /\ Exited(q)
    /\ stderr[q].kind = "Output directory already exists"
    /\ fs # fs0[p]

(***************************************************************************)
(* C2.  For every key that is not in the catalog the run exits non-zero,   *)
(* its error message lists every valid key, and nothing is created.        *)
(***************************************************************************)
C2_UnknownKeyListsKeysWritesNothing ==
  \A p \in Procs :
    (IsRun(p) /\ Latest(p) /\ args[p].key \notin CatalogKeys(args[p].tool)) =>
      /\ fs = fs0[p]
      /\ Exited(p) =>
           /\ exitCode[p] = 1
           /\ CatalogKeys(args[p].tool) \subseteq Range(stderr[p].keys)

(***************************************************************************)
(* C3.  As claimed: after the copy no path exists under dest whose top     *)
(* component bears a name of the exclusion list.                           *)
(***************************************************************************)
C3_NoExcludedNameUnderDest ==
  \A p \in Procs :
    (IsRun(p) /\ Latest(p) /\ Fresh(p)) =>
      \A n \in ExclusionList(args[p].tool) : ~existsSync(fs, Join(Dest(p), n))

CopyDone(p) ==
  pc[p] \in {"verify", "package", "readme"} \/ Succeeded(p)

(***************************************************************************)
(* C3, amended.  Under dest no directory bears, as top component, a name   *)
(* of the exclusion list; a regular file of the source root that bears     *)
(* such a name is copied like any other file.                              *)
(***************************************************************************)
C3_NoExcludedDirectoryUnderDest ==
  \A p \in Procs :
    (IsRun(p) /\ Latest(p) /\ Fresh(p)) =>
      \A n \in ExclusionList(args[p].tool) :
        /\ existsSync(fs, Join(Dest(p), n)) => ~IsDirectory(fs, Join(Dest(p), n))
        /\ ( /\ CopyDone(p)
             /\ existsSync(fs, Join(rootDir, n))
             /\ ~IsDirectory(fs, Join(rootDir, n)) ) =>
             /\ existsSync(fs, Join(Dest(p), n))
             /\ fs[Join(Dest(p), n)] = fs[Join(rootDir, n)]

C3_Witness ==
  \E p \in Procs :
    /\ IsRun(p) /\ Fresh(p) /\ CopyDone(p)
    /\ existsSync(fs, <<"proj", "node_modules", "index.js">>)
    /\ ~existsSync(fs, Join(Dest(p), "node_modules"))
    /\ existsSync(fs, Join(Dest(p), "cache"))

(***************************************************************************)
(* C4.  When the copy into a fresh dest has returned, the files under dest *)
(* are, path for path, the non-excluded files under the source root, each  *)
(* with the content of its source file.                                    *)
(***************************************************************************)
C4_CopyIsContentPreservingBijection ==
  \A p \in Procs :
    (IsRun(p) /\ Latest(p) /\ Fresh(p) /\ pc[p] = AfterCopy(args[p].tool)) =>
      /\ FilesUnder(fs, Dest(p)) =
           NonExcludedFiles(fs, rootDir, ExclusionList(args[p].tool))
      /\ \A rel \in FilesUnder(fs, Dest(p)) :
           fs[Dest(p) \o rel] = fs[rootDir \o rel]

C4_Witness ==
  \E p \in Procs :
    /\ IsRun(p) /\ Fresh(p) /\ pc[p] = AfterCopy(args[p].tool)
    /\ Cardinality(FilesUnder(fs, Dest(p))) >= 5
    /\ <<"contracts", "AcademicPeerReview.sol">> \in FilesUnder(fs, Dest(p))

(***************************************************************************)
(* C5.  A run that exits with code 0 leaves in outputDir the complete      *)
(* project: the filtered copy of the source tree, a package.json whose     *)
(* name, description and homepage are those of the key, and the generated  *)
(* README.md in place of the copied one.  A run that ends before the       *)
(* README is written exits non-zero.                                       *)
(***************************************************************************)
ExpectedName(p) ==
  IF args[p].tool = "example" THEN "fhevm-example-" \o args[p].key
  ELSE "fhevm-examples-" \o args[p].key

ExpectedDescription(p) ==
  IF args[p].tool = "example" THEN EXAMPLES_MAP[args[p].key].description
  ELSE CATEGORIES[args[p].key].description

ExpectedHomepage(p) == "https://github.com/zama-ai/fhevm-examples/" \o args[p].key

ExpectedReadme(p) ==
  IF args[p].tool = "example"
  THEN generateReadme(args[p].key, EXAMPLES_MAP[args[p].key].description,
         getContractName(fs, rootDir \o EXAMPLES_MAP[args[p].key].contract))
  ELSE generateCategoryReadme(args[p].key, CATEGORIES[args[p].key].contracts)

Rewritten == { <<"package.json">>, <<"README.md">> }

ReadmeWritten(p) ==
  /\ args[p].key \in CatalogKeys(args[p].tool)
  /\ existsSync(fs, Join(Dest(p), "README.md"))
  /\ args[p].tool = "example" =>
       existsSync(fs, rootDir \o EXAMPLES_MAP[args[p].key].contract)
  /\ fs[Join(Dest(p), "README.md")] = ExpectedReadme(p)

CompleteProject(p) ==
  LET copied == NonExcludedFiles(fs, rootDir, ExclusionList(args[p].tool))
      package == Join(Dest(p), "package.json")
  IN  /\ args[p].key \in CatalogKeys(args[p].tool)
      /\ FilesUnder(fs, Dest(p)) = copied \cup { <<"README.md">> }
      /\ \A rel \in copied \ Rewritten : fs[Dest(p) \o rel] = fs[rootDir \o rel]
      /\ existsSync(fs, package)
      /\ IsJson(fs[package])
      /\ Get(fs[package].lines, "name") = ExpectedName(p)
      /\ Get(fs[package].lines, "description") = ExpectedDescription(p)
      /\ Get(fs[package].lines, "homepage") = ExpectedHomepage(p)
      /\ ReadmeWritten(p)
      /\ existsSync(fs, Join(rootDir, "README.md")) =>
           fs[Join(Dest(p), "README.md")] # fs[Join(rootDir, "README.md")]

C5_ExitZeroMeansCompleteProject ==
  \A p \in Procs :
    (IsRun(p) /\ Latest(p) /\ Exited(p)) =>
      /\ exitCode[p] \in {0, 1}
      /\ exitCode[p] = 0 => CompleteProject(p)
      /\ ~ReadmeWritten(p) => exitCode[p] = 1

C5_Witness ==
  \E p, q \in Procs :
    /\ IsRun(p) /\ Succeeded(p) /\ args[p].tool = "example"
    /\ IsRun(q) /\ Succeeded(q) /\ args[q].tool = "category"

(***************************************************************************)
(* C6.  Once package.json has been rewritten for a key of the catalogs,    *)
(* its name, description and homepage are those of the key and every       *)
(* other field has the value it has in the source package.json.            *)
(***************************************************************************)
\* The properties of a package.json other than the three rewritten.
OtherFields(obj) ==
  SelectSeq(obj, LAMBDA kv : kv[1] \notin {"name", "description", "homepage"})

PackageRewritten(p) == pc[p] = "readme" \/ Succeeded(p)

C6_RewriteKeepsOtherFields ==
  \A p \in Procs :
    ( /\ IsRun(p) /\ Latest(p) /\ PackageRewritten(p)
      /\ args[p].key \in CatalogKeys(args[p].tool) ) =>
      LET before == fs0[p][Join(rootDir, "package.json")].lines
          after == fs[Join(Dest(p), "package.json")].lines
      IN  /\ OtherFields(after) = OtherFields(before)
          /\ Get(after, "name") = ExpectedName(p)
          /\ Get(after, "description") = ExpectedDescription(p)
          /\ Get(after, "homepage") = ExpectedHomepage(p)

C6_Witness ==
  \E p, q \in Procs :
    /\ IsRun(p) /\ Succeeded(p) /\ args[p].tool = "example"
    /\ IsRun(q) /\ pc[q] = "readme" /\ args[q].tool = "category"
    /\ Get(fs[Join(Dest(q), "package.json")].lines, "dependencies") = "{ethers, react}"
    /\ Get(fs[Join(Dest(q), "package.json")].lines, "name") # Get(SourcePackage, "name")

(***************************************************************************)
(* C7.  generate-example, started when the contract file or the test file  *)
(* of the catalog entry does not exist, exits non-zero, and it does so     *)
(* before outputDir is created or any file is written.                     *)
(***************************************************************************)
SourceMissing(p) ==
  \/ ~existsSync(fs0[p], rootDir \o EXAMPLES_MAP[args[p].key].contract)
  \/ ~existsSync(fs0[p], rootDir \o EXAMPLES_MAP[args[p].key].test)

C7_ExampleMissingSourceFailsFirst ==
  \A p \in Procs :
    ( /\ IsRun(p) /\ Latest(p) /\ args[p].tool = "example"
      /\ args[p].key \in DOMAIN EXAMPLES_MAP
      /\ SourceMissing(p) ) =>
      /\ fs = fs0[p]
      /\ pc[p] \in {"checkKey", "validate", "exited"}
      /\ Exited(p) =>
           /\ exitCode[p] = 1
           /\ stderr[p].kind \in {"Contract not found", "Test not found"}

C7_Witness ==
  \E p \in Procs :
    /\ IsRun(p) /\ args[p].tool = "example" /\ Exited(p) /\ Fresh(p)
    /\ stderr[p].kind = "Test not found"
    /\ existsSync(fs0[p], rootDir \o EXAMPLES_MAP[args[p].key].contract)

(***************************************************************************)
(* C8.  As claimed: generate-category exits non-zero when the contract     *)
(* file or the test file of a member of the category does not exist.       *)
(***************************************************************************)
MemberMissing(p) ==
  \E i \in 1..Len(CATEGORIES[args[p].key].contracts) :
    \/ ~existsSync(fs0[p], rootDir \o CATEGORIES[args[p].key].contracts[i].path)
    \/ ~existsSync(fs0[p], rootDir \o CATEGORIES[args[p].key].contracts[i].test)

C8_CategoryMissingSourceFails ==
  \A p \in Procs :
    ( /\ IsRun(p) /\ args[p].tool = "category" /\ Exited(p)
      /\ args[p].key \in DOMAIN CATEGORIES
      /\ MemberMissing(p) ) =>
      exitCode[p] # 0

(***************************************************************************)
(* C9.  As claimed: the recursive copy never descends into the tree it is  *)
(* itself creating, that is, no activation of copyDirectoryRecursive of a  *)
(* run has its source at or under the outputDir of the run.                *)
(***************************************************************************)
C9_CopyNeverDescendsIntoOutputDir ==
  \A p \in Procs :
    IsRun(p) =>
      \A i \in 1..Len(stack[p]) : ~IsPrefix(Dest(p), stack[p][i].source)

(***************************************************************************)
(* C10.  As claimed: the copy operation called with a destRoot that exists *)
(* fails and overwrites nothing.                                           *)
(***************************************************************************)
C10_CopyIntoExistingDestFails ==
  \A p \in Procs :
    ( /\ args[p].tool = "copyTree" /\ Latest(p) /\ Exited(p)
      /\ existsSync(fs0[p], Dest(p)) ) =>
      /\ exitCode[p] # 0
      /\ fs = fs0[p]

(***************************************************************************)
(* C12.  The README that generate-category writes for a category lists,    *)
(* in the numbered list of included examples and in the Contracts section  *)
(* alike, one entry per member of the category, in the order in which the  *)
(* catalog declares the members, and states their number.                  *)
(***************************************************************************)
\* The names of the README lines that bear the tag, in document order.
ReadmeEntries(readme, tag) ==
  LET tagged == SelectSeq(readme.lines, LAMBDA l : l[1] = tag)
  IN  [i \in 1..Len(tagged) |-> tagged[i][2]]

MemberNames(category) ==
  [i \in 1..Len(CATEGORIES[category].contracts) |->
     IF CATEGORIES[category].contracts[i].path = <<"contracts", "AcademicPeerReview.sol">>
     THEN "AcademicPeerReview" ELSE "SimpleAcademicReview"]

C12_CategoryReadmeListsMembersInOrder ==
  \A p \in Procs :
    ( /\ IsRun(p) /\ args[p].tool = "category" /\ Succeeded(p)
      /\ args[p].key \in DOMAIN CATEGORIES ) =>
      LET readme == fs[Join(Dest(p), "README.md")]
          members == MemberNames(args[p].key)
      IN  /\ ReadmeEntries(readme, "included") = members
          /\ ReadmeEntries(readme, "###") = members
          /\ Len(readme.lines) = 3 + 2 * Len(members)
          /\ readme.lines[3][2] =
               (IF Len(members) = 2 THEN "2 example contracts"
                ELSE "1 example contract")

C12_Witness ==
  \E p \in Procs :
    /\ IsRun(p) /\ args[p].tool = "category" /\ Succeeded(p)
    /\ args[p].key = "academic-review"
    /\ ReadmeEntries(fs[Join(Dest(p), "README.md")], "###") =
         <<"AcademicPeerReview", "SimpleAcademicReview">>

(***************************************************************************)
(* C13.  When the contract file of the example holds no contract           *)
(* declaration, generate-example exits with a non-zero code, never reaches *)
(* the rewrite of package.json nor the README step, and the package.json   *)
(* and README.md under outputDir are not written by the run: each is       *)
(* absent, as it was before the run, or the copy of the source file.       *)
(***************************************************************************)
NoDeclaration(p) ==
  LET contractPath == rootDir \o EXAMPLES_MAP[args[p].key].contract
  IN  /\ existsSync(fs0[p], contractPath)
      /\ \A i \in 1..Len(fs0[p][contractPath].lines) :
           ~IsDeclaration(fs0[p][contractPath].lines[i])

\* The file of that name under outputDir is not one the run has generated.
NotGenerated(p, name) ==
  LET at == Join(Dest(p), name)
  IN  existsSync(fs, at) =>
        \/ existsSync(fs0[p], at) /\ fs[at] = fs0[p][at]
        \/ existsSync(fs, Join(rootDir, name)) /\ fs[at] = fs[Join(rootDir, name)]

C13_NoDeclarationFailsHard ==
  \A p \in Procs :
    ( /\ IsRun(p) /\ Latest(p) /\ args[p].tool = "example"
      /\ args[p].key \in DOMAIN EXAMPLES_MAP
      /\ NoDeclaration(p) ) =>
      /\ pc[p] \notin {"package", "readme"}
      /\ contractName[p] = Null
      /\ NotGenerated(p, "package.json")
      /\ NotGenerated(p, "README.md")
      /\ Exited(p) => exitCode[p] = 1

C13_Witness ==
  \E p \in Procs :
    /\ IsRun(p) /\ args[p].tool = "example" /\ Fresh(p) /\ Exited(p)
    /\ stderr[p].kind = "Could not extract contract name"
    /\ existsSync(fs, Join(Dest(p), "package.json"))
    /\ fs[Join(Dest(p), "package.json")] = fs[Join(rootDir, "package.json")]

(***************************************************************************)
(* C14.  When the project holds no package.json, a run of generate-example *)
(* or of generate-category exits with a non-zero code and never reaches    *)
(* the README step: the README.md under outputDir, if any, is the copy of  *)
(* the source README or the file that was there before the run.            *)
(***************************************************************************)
C14_MissingPackageJsonFails ==
  \A p \in Procs :
    ( /\ IsRun(p) /\ Latest(p)
      /\ ~existsSync(fs0[p], Join(rootDir, "package.json")) ) =>
      /\ pc[p] # "readme"
      /\ NotGenerated(p, "README.md")
      /\ Exited(p) => exitCode[p] = 1

C14_Witness ==
  \E p, q \in Procs :
    /\ IsRun(p) /\ args[p].tool = "example" /\ Exited(p)
    /\ stderr[p].kind = "ENOENT"
    /\ IsRun(q) /\ args[q].tool = "category" /\ Exited(q) /\ Fresh(q)
    /\ stderr[q].kind = "ENOENT"
    /\ existsSync(fs, Join(Dest(q), "README.md"))
    /\ fs[Join(Dest(q), "README.md")] = fs[Join(rootDir, "README.md")]

(***************************************************************************)
(* C15.  A run of generate-docs for one key changes nothing in the file    *)
(* system but the page of that key: the index and every other page are as  *)
(* they were, and when the run succeeds the page is the regenerated one.   *)
(* A run with --all that succeeds has rewritten the index.                 *)
(***************************************************************************)
IsDocsRun(p) == args[p].tool = "docs"

\* The file system is as it was when p started, but for the paths given.
UnchangedBut(p, paths) ==
  /\ DOMAIN fs \ paths = DOMAIN fs0[p] \ paths
  /\ \A q \in DOMAIN fs \ paths : fs[q] = fs0[p][q]

\* The page shows the tab of every source file of the entry, in order, and
\* every line of every source file.
CompletePage(page, k) ==
  LET names == [i \in 1..Len(SourceFiles(k)) |->
                  SourceFiles(k)[i].path[Len(SourceFiles(k)[i].path)]]
  IN  /\ ReadmeEntries(page, "{% tab %}") = names
      /\ ReadmeEntries(page, "{% endtab %}") = names
      /\ \A i \in 1..Len(SourceFiles(k)) :
           /\ existsSync(fs, rootDir \o SourceFiles(k)[i].path)
           /\ Range(fs[rootDir \o SourceFiles(k)[i].path].lines) \subseteq Range(page.lines)
      /\ page.lines[1] = <<"#", EXAMPLES_CONFIG[k].title, "">>

\* The link targets of the index, in document order.
IndexLinks(index) ==
  LET links == SelectSeq(index.lines, LAMBDA l : l[1] = "-")
  IN  [i \in 1..Len(links) |-> links[i][3]]

C16_IndexHasOneLinkPerGeneratedPage ==
  \A p \in Procs :
    (IsDocsRun(p) /\ Latest(p) /\ args[p].key = AllFlag /\ Succeeded(p)) =>
      LET links == IndexLinks(fs[indexPath])
      IN  /\ Range(links) = { PageFile(k) : k \in DOMAIN EXAMPLES_CONFIG }
          /\ Len(links) = Cardinality(DOMAIN EXAMPLES_CONFIG)
          /\ \A k \in DOMAIN EXAMPLES_CONFIG :
               /\ existsSync(fs, PagePath(k))
               /\ CompletePage(fs[PagePath(k)], k)

C16_Witness ==
  \E p, q \in Procs :
    /\ IsDocsRun(p) /\ args[p].key = AllFlag /\ Succeeded(p)
    /\ existsSync(fs0[p], indexPath)
    /\ "old-example.md" \in Range(IndexLinks(fs0[p][indexPath]))
    /\ IsDocsRun(q) /\ args[q].key = AllFlag /\ Succeeded(q) /\ p < q
    /\ IndexLinks(fs[indexPath]) =
         <<"simple-academic-review.md", "privacy-academic-review.md">>

(***************************************************************************)
(* C17.  In every state of a run of generate-docs, the page of every       *)
(* catalog entry is absent or as it was before the run, or it is a         *)
(* complete page, with the code block of every source file of the entry;   *)
(* a run for one key whose contract or test file is missing writes nothing *)
(* and exits with a non-zero code.                                         *)
(***************************************************************************)
DocsSourceMissing(p, k) ==
  \E i \in 1..Len(SourceFiles(k)) :
    ~existsSync(fs0[p], rootDir \o SourceFiles(k)[i].path)

C17_PageIsPreviousOrComplete ==
  \A p \in Procs :
    (IsDocsRun(p) /\ Latest(p)) =>
      /\ \A k \in DOMAIN EXAMPLES_CONFIG :
           IF existsSync(fs, PagePath(k))
           THEN \/ /\ existsSync(fs0[p], PagePath(k))
                   /\ fs[PagePath(k)] = fs0[p][PagePath(k)]
                \/ CompletePage(fs[PagePath(k)], k)
           ELSE ~existsSync(fs0[p], PagePath(k))
      /\ ( /\ args[p].key \in DOMAIN EXAMPLES_CONFIG
           /\ DocsSourceMissing(p, args[p].key) ) =>
           /\ fs = fs0[p]
           /\ Exited(p) => exitCode[p] = 1

C17_Witness ==
  \E p \in Procs :
    /\ IsDocsRun(p) /\ Exited(p) /\ args[p].key = "privacy-academic-review"
    /\ stderr[p].kind = "SourceFileMissingError"
    /\ contractName[p] = "AcademicPeerReview"
    /\ existsSync(fs, PagePath(args[p].key))
    /\ fs[PagePath(args[p].key)] = OldPage

(***************************************************************************)
(* Claims about the contract AcademicPeerReview.                           *)
(***************************************************************************)
\* This step is the transaction fn sent by sender about paper id: a
\* transaction leaves the clock alone and records itself in lastCall.
Transacts(fn, sender, id) ==
  /\ now' = now
  /\ lastCall'.fn = fn
  /\ lastCall'.sender = sender
  /\ lastCall'.paperId = id

Reverted(call) == call.result # Ok

\* The reviewers whose review of the paper is stored.
Submitters(id) == {a \in Addresses : reviews[id][a].isSubmitted}

\* Every paper holds one encrypted score and one paperReviewers entry per
\* stored review, and no reviewer is listed twice.
OneReviewPerReviewer ==
  \A id \in PaperIds :
    /\ Len(papers[id].encryptedScores) = Cardinality(Submitters(id))
    /\ Len(paperReviewers[id]) = Cardinality(Submitters(id))
    /\ \A i, j \in 1..Len(paperReviewers[id]) :
         paperReviewers[id][i] = paperReviewers[id][j] => i = j

\* What a repeated submitReview must leave as it was.
ReviewUntouched(id, a) ==
  /\ reviews'[id][a] = reviews[id][a]
  /\ papers'[id].encryptedScores = papers[id].encryptedScores
  /\ reviewers'[a].reputation = reviewers[a].reputation
  /\ reviewers'[a].reviewsCompleted = reviewers[a].reviewsCompleted

\* C18 as stated: a second submitReview by the same reviewer for the same
\* paper reverts with 'Review already submitted', whatever its score.
C18_SecondReviewAlreadySubmitted ==
  [][\A id \in PaperIds, a \in Addresses :
       (Transacts("submitReview", a, id) /\ reviews[id][a].isSubmitted)
         => lastCall'.result = "Review already submitted"]_vars

\* C18 (amended): at most one review per paper and reviewer is ever recorded;
\* a second submitReview by the same reviewer for the same paper reverts,
\* with 'Review already submitted' when its score lies in MIN_SCORE..MAX_SCORE
\* and with 'Invalid score' otherwise, and leaves the stored review, the
\* paper's encryptedScores and the reviewer's reputation and reviewsCompleted
\* unchanged.
C18_SecondReviewReverts ==
  /\ []OneReviewPerReviewer
  /\ [][\A id \in PaperIds, a \in Addresses :
          (Transacts("submitReview", a, id) /\ reviews[id][a].isSubmitted)
            => /\ lastCall'.result =
                    IF lastCall'.score \in MIN_SCORE..MAX_SCORE
                    THEN "Review already submitted" ELSE "Invalid score"
               /\ ReviewUntouched(id, a)]_vars

\* A reviewer with a stored review has sent a second one, which was refused.
C18_Witness ==
  /\ lastCall.fn = "submitReview"
  /\ lastCall.result = "Review already submitted"
  /\ reviews[lastCall.paperId][lastCall.sender].isSubmitted
  /\ reviewers[lastCall.sender].reviewsCompleted = 1
  /\ Len(papers[lastCall.paperId].encryptedScores) >= 1

\* msg.sender is the contract owner or the author of the paper.
OwnerOrAuthor(a, id) == a = owner \/ a = papers[id].author

\* C19: requestScoreReveal succeeds only on a finalized paper and for the
\* owner or the paper's author; on a finalized paper any other caller is
\* refused as not authorized; on a paper that is not finalized every caller is
\* refused with 'Reviews not finalized'; a refused call leaves the paper's
\* status unchanged.
C19_RevealOnlyFinalizedByOwnerOrAuthor ==
  [][\A id \in PaperIds, a \in Addresses :
       Transacts("requestScoreReveal", a, id)
         => /\ lastCall'.result = Ok
                 => papers[id].isFinalized /\ OwnerOrAuthor(a, id)
            /\ (papers[id].isFinalized /\ ~OwnerOrAuthor(a, id))
                 => lastCall'.result = "Not authorized to reveal score"
            /\ ~papers[id].isFinalized
                 => lastCall'.result = "Reviews not finalized"
            /\ Reverted(lastCall')
                 => papers'[id].status = papers[id].status]_vars

\* Somebody who is neither the owner nor the author has asked for the reveal
\* of a finalized paper and was refused.
C19_Witness ==
  /\ lastCall.fn = "requestScoreReveal"
  /\ lastCall.result = "Not authorized to reveal score"
  /\ papers[lastCall.paperId].isFinalized
  /\ ~OwnerOrAuthor(lastCall.sender, lastCall.paperId)
  /\ papers[lastCall.paperId].status = "UnderReview"

\* msg.sender has never called registerReviewer with success.
NeverRegistered(a) == reviewers[a].reviewerAddress = ZeroAddress

\* C20: a successful registerReviewer makes the caller a verified reviewer
\* (isVerified true, reputation 100, reviewsCompleted 0), whose submitReview
\* is then not refused for want of verification, with no action by the owner;
\* submitReview by an address that never registered reverts.
C20_RegistrationVerifies ==
  [][\A a \in Addresses :
       /\ (Transacts("registerReviewer", a, 0) /\ lastCall'.result = Ok)
            => /\ reviewers'[a].isVerified
               /\ reviewers'[a].reputation = 100
               /\ reviewers'[a].reviewsCompleted = 0
       /\ \A id \in PaperIds :
            Transacts("submitReview", a, id)
              => /\ ~NeverRegistered(a)
                      => lastCall'.result # "Not a verified reviewer"
                 /\ NeverRegistered(a) => Reverted(lastCall')]_vars

\* The fields of a reviewer that a registration writes or that count reviews.
ReviewerUntouched(a) ==
  /\ reviewers'[a].expertise = reviewers[a].expertise
  /\ reviewers'[a].reputation = reviewers[a].reputation
  /\ reviewers'[a].isVerified = reviewers[a].isVerified
  /\ reviewers'[a].reviewsCompleted = reviewers[a].reviewsCompleted

\* C21: registerReviewer called by an address that has already registered
\* reverts with 'Already registered' in every state and leaves that
\* reviewer's expertise, reputation, verification flag and reviewsCompleted
\* unchanged.
C21_SecondRegistrationReverts ==
  [][\A a \in Addresses :
       (Transacts("registerReviewer", a, 0) /\ ~NeverRegistered(a))
         => /\ lastCall'.result = "Already registered"
            /\ ReviewerUntouched(a)]_vars

\* The paper has at least one stored review.
Reviewed(id) == Len(papers[id].encryptedScores) >= 1

\* C22: a paper is finalized (isFinalized true, aggregatedScore non-zero) as
\* soon as its first review has been submitted, and from then on the author's
\* requestScoreReveal is not refused.
C22_FinalizedAfterFirstReview ==
  /\ [](\A id \in PaperIds :
          Reviewed(id) => papers[id].isFinalized /\ papers[id].aggregatedScore # 0)
  /\ [][\A id \in PaperIds :
          (Transacts("requestScoreReveal", papers[id].author, id) /\ Reviewed(id))
            => lastCall'.result = Ok]_vars

\* The papers 1..paperCount are stored under their ids, the others are empty.
PapersNumbered ==
  \A id \in PaperIds :
    IF id <= paperCount THEN papers[id].paperId = id ELSE papers[id] = ZeroPaper

\* No stored paper has an empty title, abstract or IPFS hash.
NoEmptyField ==
  \A id \in PaperIds :
    papers[id].paperId # 0
      => papers[id].title # "" /\ papers[id].abstractText # ""
           /\ papers[id].ipfsHash # ""

\* This step is a submitPaper that went through.
PaperSubmitted ==
  \E a \in Addresses :
    Transacts("submitPaper", a, paperCount + 1) /\ lastCall'.result = Ok
      /\ papers'[paperCount + 1].paperId # papers[paperCount + 1].paperId

\* C23: paperCount starts at 0 and grows by one with every successful
\* submitPaper and with nothing else; the papers bear the ids 1..paperCount in
\* submission order; submitPaper with an empty title, abstract or IPFS hash
\* reverts, so that no such paper is ever stored.
C23_PaperCountAndNoEmptyField ==
  /\ paperCount = 0
  /\ [](PapersNumbered /\ NoEmptyField)
  /\ [][paperCount' = IF PaperSubmitted THEN paperCount + 1 ELSE paperCount]_vars

(***************************************************************************)
(* Claims about concurrent and repeated invocations of the generators.     *)
(***************************************************************************)
DestinationExists(message) == message.kind = "Output directory already exists"

\* Both processes were given the same outputDir, which did not exist when
\* they were started, and both ran to the end with exit code 0.
BothSucceed(p, q) ==
  /\ p # q
  /\ args[p].outputDir = args[q].outputDir
  /\ args[p].tool \in Tools /\ args[q].tool \in Tools
  /\ ~existsSync(fs0[p], args[p].outputDir)
  /\ ~existsSync(fs0[q], args[q].outputDir)
  /\ exitCode[p] = 0 /\ exitCode[q] = 0

\* C24: the destination-exists check is the one place where a run is
\* refused for its outputDir; it is a step of its own before the copy, and a
\* process that has passed it copies whatever another process has created in
\* outputDir meanwhile.
C24_OnlyTheCheckRefuses ==
  [][\A p \in Procs :
       /\ (DestinationExists(stderr'[p]) /\ ~DestinationExists(stderr[p]))
            => pc[p] = "checkOutput"
       /\ (pc[p] = "callCopy" /\ pc'[p] # "callCopy")
            => pc'[p] = "copy"]_vars

\* Two concurrent invocations with the same outputDir have both passed the
\* check, both written into outputDir and both succeeded.
C24_Witness ==
  /\ \E p, q \in Procs : BothSucceed(p, q)
  /\ existsSync(fs, Join(SharedOutputDir, "README.md"))

\* What a run that fails after the copy has been called ends with: an I/O
\* error of the copy, no contract declaration, a package.json that is missing
\* or unreadable, a catalog member without contracts.
CopyFailures(tool) ==
  IF tool = "example"
  THEN {"ENAMETOOLONG", "EISDIR", "Could not extract contract name", "ENOENT",
        "SyntaxError"}
  ELSE {"ENAMETOOLONG", "EISDIR", "ENOENT", "SyntaxError", "TypeError"}

\* p found no outputDir and failed once its copy had started.
FailedInCopy(p) ==
  /\ IsRun(p) /\ Fresh(p) /\ Exited(p)
  /\ exitCode[p] = 1
  /\ stderr[p].kind \in CopyFailures(args[p].tool)

\* The key of q and the source files pass the checks that come before the
\* check of outputDir.
PassesEarlierChecks(q) ==
  IF args[q].tool = "example"
  THEN /\ args[q].key \in DOMAIN EXAMPLES_MAP
       /\ ValidatePaths(fs0[q], EXAMPLES_MAP[args[q].key]) = Valid
  ELSE Truthy(CATEGORIES, args[q].key)

\* q is a later run with the outputDir of a run that failed in its copy.
Retries(q, p) == p < q /\ FailedInCopy(p) /\ IsRun(q) /\ Dest(q) = Dest(p)

\* C25 as stated: every later invocation with the outputDir of a run that
\* failed once copying had started fails with the destination-exists error.
C25_EveryRetryFailsWithDestinationExists ==
  \A p, q \in Procs :
    (Retries(q, p) /\ Exited(q)) => DestinationExists(stderr[q])

\* C25 (amended): a run that fails once copying has started leaves outputDir
\* in place; every later run with that outputDir changes nothing (the file
\* system is as that run found it for as long as no run follows it) and exits
\* with 1, with the destination-exists error when its key and source files
\* pass the checks made before that of outputDir, and with the error of the
\* earlier check when they do not.
C25_FailedRunLeavesOutputDirThatBlocks ==
  /\ \A p \in Procs : FailedInCopy(p) => existsSync(fs, Dest(p))
  /\ \A p, q \in Procs :
       Retries(q, p)
         => /\ Latest(q) => fs = fs0[q]
            /\ Exited(q)
                 => /\ exitCode[q] = 1
                    /\ PassesEarlierChecks(q) <=> DestinationExists(stderr[q])

\* A run has failed for want of package.json and left its copy, without a
\* package.json, behind; a later run with that outputDir was refused because
\* the directory exists.
C25_Witness ==
  \E p, q \in Procs :
    /\ Retries(q, p) /\ Exited(q)
    /\ DestinationExists(stderr[q])
    /\ stderr[p].kind = "ENOENT"
    /\ existsSync(fs, Join(Dest(p), "README.md"))
    /\ ~existsSync(fs, Join(Dest(p), "package.json"))

\* The path is neither outputDir nor below it.
OutsideDest(p, path) == ~IsPrefix(Dest(p), path)

\* A directory on the way from the root to outputDir.
AncestorOfDest(p, path) == IsPrefix(path, Dest(p)) /\ path # Dest(p)

\* What was outside outputDir when p was started is there as it was.
SourceKept(p) ==
  \A path \in DOMAIN fs0[p] :
    OutsideDest(p, path) => existsSync(fs, path) /\ fs[path] = fs0[p][path]

\* C26 as stated: a run creates, modifies and deletes nothing outside
\* outputDir.
C26_NothingOutsideOutputDirChanges ==
  \A p \in Procs :
    (IsRun(p) /\ Latest(p))
      => /\ SourceKept(p)
         /\ \A path \in DOMAIN fs :
              OutsideDest(p, path) => existsSync(fs0[p], path)

\* C26 (amended): a run modifies and deletes nothing outside outputDir, and
\* the one thing it creates there are the missing directories on the way to
\* outputDir; on success and on every failure.
C26_OnlyAncestorsCreatedOutsideOutputDir ==
  \A p \in Procs :
    (IsRun(p) /\ Latest(p))
      => /\ SourceKept(p)
         /\ \A path \in DOMAIN fs :
              (OutsideDest(p, path) /\ ~existsSync(fs0[p], path))
                => AncestorOfDest(p, path) /\ fs[path] = DirNode

\* A run with the default outputDir has succeeded and has created the
\* directory `output` of the project on its way.
C26_Witness ==
  \E p \in Procs :
    /\ IsRun(p) /\ Latest(p) /\ Succeeded(p)
    /\ Dest(p) = DefaultOutputDir(args[p].tool, args[p].key)
    /\ ~existsSync(fs0[p], cwd \o <<"output">>)
    /\ existsSync(fs, cwd \o <<"output">>)
    /\ existsSync(fs, Join(Dest(p), "README.md"))

\* The directories below dir, as paths relative to dir.
DirectoriesUnder(fsys, dir) ==
  { SubSeq(q, Len(dir) + 1, Len(q)) :
      q \in { r \in DOMAIN fsys : /\ IsPrefix(dir, r)
                                  /\ r # dir
                                  /\ fsys[r].type = "dir" } }

\* The path lies in the source tree and not in outputDir.
InSource(p, path) == IsPrefix(rootDir, path) /\ OutsideDest(p, path)

\* C27: the exclusion is by directory name, at every depth.  After the copy
\* no directory below outputDir bears an excluded name, not even an empty
\* one; a source file is below outputDir exactly when no directory on its way
\* bears an excluded name, whatever its own name; generate-category leaves
\* out `build` and `output`, which generate-example copies.
C27_DirectoriesExcludedAtEveryDepth ==
  \A p \in Procs :
    (IsRun(p) /\ Latest(p) /\ Fresh(p) /\ CopyDone(p))
      => /\ \A rel \in DirectoriesUnder(fs, Dest(p)) :
              rel[Len(rel)] \notin ExclusionList(args[p].tool)
         /\ \A rel \in FilesUnder(fs, rootDir) :
              InSource(p, rootDir \o rel)
                => (existsSync(fs, Dest(p) \o rel)
                      <=> NonExcluded(rel, ExclusionList(args[p].tool)))
         /\ existsSync(fs, Dest(p) \o <<"build", "index.js">>)
              <=> args[p].tool = "example"

\* generate-category has copied a project that holds a directory `cache`
\* below `test`, a file `cache` and a directory `build`.
C27_Witness ==
  \E p \in Procs :
    /\ IsRun(p) /\ Latest(p) /\ Fresh(p) /\ Succeeded(p)
    /\ args[p].tool = "category"
    /\ existsSync(fs, <<"proj", "test", "cache", "index.js">>)
    /\ existsSync(fs, Dest(p) \o <<"test">>)
    /\ ~existsSync(fs, Dest(p) \o <<"test", "cache">>)
    /\ existsSync(fs, Dest(p) \o <<"cache">>)
    /\ ~existsSync(fs, Dest(p) \o <<"build">>)

\* What a finalization fixes.
Sealed(paper) ==
  <<paper.aggregatedScore, paper.encryptedScores, paper.reviewerCount>>

\* C28: finalization is permanent.  Once isFinalized is true it stays true,
\* and no later step changes the paper's aggregatedScore, encryptedScores or
\* reviewerCount: every further submitReview for the paper reverts as a
\* whole; in every reachable state reviewerCount is the length of
\* encryptedScores.
C28_FinalizationIsPermanent ==
  /\ [](\A id \in PaperIds :
          papers[id].reviewerCount = Len(papers[id].encryptedScores))
  /\ [][\A id \in PaperIds :
          papers[id].isFinalized
            => /\ papers'[id].isFinalized
               /\ Sealed(papers'[id]) = Sealed(papers[id])
               /\ \A a \in Addresses :
                    Transacts("submitReview", a, id)
                      => Reverted(lastCall') /\ Storage' = Storage]_vars

\* A verified reviewer who had not reviewed the paper has sent a review after
\* the finalization: the transaction was reverted by _finalizeReviews.
C28_Witness ==
  /\ lastCall.fn = "submitReview"
  /\ lastCall.result = "Already finalized"
  /\ papers[lastCall.paperId].isFinalized
  /\ papers[lastCall.paperId].reviewerCount = MIN_REVIEWERS
  /\ ~reviews[lastCall.paperId][lastCall.sender].isSubmitted
  /\ reviewers[lastCall.sender].reviewsCompleted = 0

\* This step is a transaction fn of sender that went through.
Succeeds(fn, sender) ==
  /\ now' = now
  /\ lastCall'.fn = fn
  /\ lastCall'.sender = sender
  /\ lastCall'.result = Ok

\* C29: every registered reviewer has reputation = 100 + 10 * reviewsCompleted.
\* A registration sets 100 and 0, a successful submitReview adds 10 and 1, and
\* no other step changes either counter: not a refused registration, a
\* verification or a reverted review.
C29_ReputationCountsReviews ==
  /\ [](\A a \in Addresses :
          ~NeverRegistered(a)
            => reviewers[a].reputation = 100 + 10 * reviewers[a].reviewsCompleted)
  /\ [][\A a \in Addresses :
          IF Succeeds("submitReview", a)
          THEN /\ reviewers'[a].reputation = reviewers[a].reputation + 10
               /\ reviewers'[a].reviewsCompleted = reviewers[a].reviewsCompleted + 1
          ELSE IF Succeeds("registerReviewer", a)
          THEN /\ reviewers'[a].reputation = 100
               /\ reviewers'[a].reviewsCompleted = 0
          ELSE /\ reviewers'[a].reputation = reviewers[a].reputation
               /\ reviewers'[a].reviewsCompleted = reviewers[a].reviewsCompleted]_vars

\* A reviewer with two reviews and reputation 120 has tried to register again
\* and was refused.
C29_Witness ==
  /\ lastCall.fn = "registerReviewer"
  /\ lastCall.result = "Already registered"
  /\ reviewers[lastCall.sender].reviewsCompleted = 2
  /\ reviewers[lastCall.sender].reputation = 120

\* C30: the score that requestScoreReveal reveals is (aggregatedScore mod 4)
\* + 7 and lies in 7..10; every successful reveal sets the status of the
\* paper to Accepted, and no paper is ever in status Rejected.
C30_RevealAlwaysAccepts ==
  /\ [](\A id \in PaperIds : papers[id].status # "Rejected")
  /\ [][\A id \in PaperIds, a \in Addresses :
          (Transacts("requestScoreReveal", a, id) /\ lastCall'.result = Ok)
            => /\ pseudoRandomScore(papers[id]) = (papers[id].aggregatedScore % 4) + 7
               /\ pseudoRandomScore(papers[id]) \in 7..10
               /\ papers'[id].status = "Accepted"]_vars

\* The score of a finalized paper has been revealed, it is above 7, and the
\* paper is accepted.
C30_Witness ==
  /\ lastCall.fn = "requestScoreReveal"
  /\ lastCall.result = Ok
  /\ papers[lastCall.paperId].isFinalized
  /\ pseudoRandomScore(papers[lastCall.paperId]) > 7
  /\ papers[lastCall.paperId].status = "Accepted"

====
